---- MODULE Spec2Model ----
(***************************************************************************)
(* Model of the Grow A Garden e-mail notifier (funschoolwork/botemail).    *)
(*                                                                         *)
(* The polling variant (src/stock-ws-emailer.js lines 2-466): its three     *)
(* process-wide maps, the HTTP handlers that mutate them, the hourly       *)
(* expiry sweep and the stock / weather pollers.                           *)
(*                                                                         *)
(* The WebSocket variant (src/unnamed/part_000 lines 855-1483): its        *)
(* upstream socket and reconnect timer, the retry chain of its catalog     *)
(* fetch, its weather poller, its /subscribe and /unsub, and the promises  *)
(* of its sendEmail, which nobody catches. The variable variant tells      *)
(* which of the two programs a behaviour is a run of.                      *)
(*                                                                         *)
(* E-mail addresses are tuples of one-character strings so that the        *)
(* handlers' String.prototype.trim() is computed, not assumed.             *)
(* Time is counted in hours (Date.now() / 3600000).                        *)
(***************************************************************************)
EXTENDS Integers, Sequences, FiniteSets, TLC

VARIABLES
    pendingVerifications,   \* Map email -> { token, timestamp }
    verifiedEmails,         \* key set of the Map verifiedEmails
    subscriptions,          \* Map email -> Set of item ids
    tokenCount,             \* number of tokens generateVerificationToken has returned
    issued,                 \* history: the (email, token) pairs sendVerificationEmail has stored, in order
    now,                    \* Date.now(), in hours
    lastSweep,              \* hour at which the expiry sweep last fired
    latestWeatherDataJSON,  \* serialization of the last weather payload, or null
    latestWeatherDataObj,   \* the last weather payload, or null
    latestStockDataJSON,    \* serialization of the last stock payload, or null
    latestStockDataObj,     \* the last stock payload, or null
    itemInfo,               \* the item catalog, [] until a fetch succeeds
    stockAwait,             \* pollStockAPI calls suspended on await fetchItemInfo()
    op,                     \* the handler or callback that ran last
    status,                 \* HTTP status answered by the last step, 0 if it answered none
    outbox,                 \* the mails the last step handed to transporter.sendMail
    consumed,               \* history: the (email, token) pairs /verify has accepted
    relayErrors,            \* recipients whose relay error the last step's mails logged
    variant,                \* the program that runs: "polling" or "ws"
    alive,                  \* the process is running
    wsConnecting,           \* upstream sockets created and not yet open or closed
    wsOpen,                 \* upstream sockets that are open
    reconnectTimers,        \* pending setTimeout(connectWebSocket, 5000)
    itemChain,              \* the fetchItemInfo(attempt) chain of the WebSocket variant
    weatherUpstream,        \* the payload GET /weather answers with at this moment
    weatherFetches,         \* responses of weather fetches not yet processed by pollWeatherAPI
    announced,              \* history: the events mailed since upstream began reporting them active
    weatherChains,          \* the pollWeatherAPI(attempt) chains of the WebSocket variant under way
    startupVerify           \* the startup transporter.verify: "none", "pending", "ok", "failed"

maps == <<pendingVerifications, verifiedEmails, subscriptions>>

clock == <<now, lastSweep>>

\* the weather fetches in flight
flights == <<weatherUpstream, weatherFetches, announced, weatherChains>>

feeds == <<latestWeatherDataJSON, latestWeatherDataObj, latestStockDataJSON,
           latestStockDataObj, itemInfo, stockAwait, flights>>

\* the state only the WebSocket variant has
wsvars == <<variant, alive, wsConnecting, wsOpen, reconnectTimers, itemChain,
           startupVerify>>

vars == <<pendingVerifications, verifiedEmails, subscriptions, tokenCount, issued, now,
          lastSweep, latestWeatherDataJSON, latestWeatherDataObj,
          latestStockDataJSON, latestStockDataObj, itemInfo, stockAwait, op,
          status, outbox, consumed, relayErrors, variant, alive, wsConnecting, wsOpen,
          reconnectTimers, itemChain, startupVerify, weatherUpstream,
          weatherFetches, announced, weatherChains>>

----------------------------------------------------------------------------
(* Bounds of the model *)

\* tokens generateVerificationToken may hand out in one run
MaxTokens == 2

\* hours the clock may reach
MaxTime == 26

\* hours without any request between two bursts of requests, where the clock is coarse
IdleHours == 13

\* entries of data.weather in a weather payload
MaxEvents == 2

\* values of the fields of a weather payload other than data.weather
MaxRev == 1

\* entries of one category of a stock payload
MaxStock == 1

\* pollStockAPI calls that may be suspended on their catalog fetch at once
MaxAwait == 1

\* pollWeatherAPI(attempt) chains that may be under way at once
MaxChains == 2

\* weather fetches that may be in flight at once
MaxFlights == 2

----------------------------------------------------------------------------
(* Program constants *)

\* const expirationTime = 24 * 60 * 60 * 1000 (in hours)
expirationTime == 24

\* setInterval(..., 60 * 60 * 1000) of the expiry sweep (in hours)
sweepInterval == 1

----------------------------------------------------------------------------
(* Values *)

\* a request parameter that is absent (undefined) or the empty string: both falsy
NoEmail == <<>>

\* trimmed addresses, the keys the maps can hold
Emails == {<<"a">>, <<"b">>}

\* addresses as they arrive in a request: missing, blank, clean, padded
RawEmails == {<<>>, <<" ">>, <<"a">>, <<"b">>, <<" ", "a", " ">>}

\* a missing ?token= parameter
NoToken == 0

\* tokens a caller may present: none, every token that can be issued, one never issued
TokenInputs == 0..(MaxTokens + 1)

ItemIds == {"carrot", "rose"}

\* req.body.items: an array of item ids, or a single scalar ("" = absent / falsy)
ItemBodies ==
    {[isArray |-> TRUE, val |-> s] :
        s \in {<<>>, <<"carrot">>, <<"rose">>, <<"carrot", "rose">>, <<"rose", "rose">>}}
    \cup {[isArray |-> FALSE, val |-> <<s>>] : s \in {"", "carrot"}}

\* JavaScript's null / undefined where a string is expected: no serialization is empty
null == <<>>

\* JavaScript's null / undefined where an object is expected
nullObj == [isNull |-> TRUE]

\* no fetchItemInfo(attempt) chain is under way
NoChain == [attempt |-> 0, phase |-> "idle", delay |-> 0]

\* the key set of a Map
Keys(map) == DOMAIN map

\* Map.prototype.set
MapSet(map, k, v) == [x \in (DOMAIN map) \cup {k} |-> IF x = k THEN v ELSE map[x]]

\* Map.prototype.delete
MapDelete(map, k) == [x \in (DOMAIN map) \ {k} |-> map[x]]

EmptyMap == [x \in {} |-> 0]

\* the elements of an array, as new Set(array) keeps them
SeqToSet(s) == {s[i] : i \in DOMAIN s}

----------------------------------------------------------------------------
(* Pure helpers *)

RECURSIVE TrimStart(_)
TrimStart(s) == IF s # <<>> /\ Head(s) = " " THEN TrimStart(Tail(s)) ELSE s

RECURSIVE TrimEnd(_)
TrimEnd(s) ==
    IF s # <<>> /\ s[Len(s)] = " " THEN TrimEnd(SubSeq(s, 1, Len(s) - 1)) ELSE s

\* req.body.email?.trim() / req.query.email?.trim()
Trim(s) == TrimEnd(TrimStart(s))

\* /^[^\s@]+@[^\s@]+\.[^\s@]+$/.test(email): the form local@domain.tld, that is one
\* @, no blank, a dot after the @, and something before the @, between the @ and
\* the dot, and after the dot
WellFormedEmail(email) ==
    /\ \A i \in DOMAIN email : email[i] # " "
    /\ Cardinality({i \in DOMAIN email : email[i] = "@"}) = 1
    /\ \E i \in DOMAIN email : \E j \in DOMAIN email :
          /\ email[i] = "@"
          /\ email[j] = "."
          /\ 1 < i
          /\ i + 1 < j
          /\ j < Len(email)

\* the mail sendVerificationEmail composes: buildVerificationEmail(email, token)
VerificationMail(to, token) ==
    [to |-> to, kind |-> "verification", body |-> [token |-> token]]

\* Array.isArray(req.body.items) ? req.body.items : [req.body.items].filter(Boolean)
ItemsOf(body) ==
    IF body.isArray THEN body.val ELSE SelectSeq(body.val, LAMBDA x : x # "")

\* a token generator that repeats itself
generateRepeatedToken(n) == 1

\* generateVerificationToken: crypto.randomBytes(32).toString('hex'); the n-th call
\* returns a value no earlier call has returned
generateVerificationToken(n) == n + 1

----------------------------------------------------------------------------
(* HTTP handlers *)

\* sendVerificationEmail(email): pendingVerifications.set(email, { token, timestamp })
sendVerificationEmail(email) ==
    /\ pendingVerifications' =
          MapSet(pendingVerifications, email,
                 [token |-> generateVerificationToken(tokenCount), timestamp |-> now])
    /\ tokenCount' = tokenCount + 1
    /\ issued' = Append(issued, <<email, generateVerificationToken(tokenCount)>>)

\* /request-verification without the subscriptions test
RequestVerificationAlways(rawEmail) ==
    LET email == Trim(rawEmail) IN
    IF email = NoEmail THEN
        /\ status' = 400
        /\ UNCHANGED <<pendingVerifications, tokenCount, issued>>
    ELSE
        /\ tokenCount < MaxTokens
        /\ sendVerificationEmail(email)
        /\ status' = 200

\* app.get('/check-verification'): the status and the verified field of its answer
CheckVerification(rawEmail) ==
    LET email == Trim(rawEmail) IN
    IF email = NoEmail THEN [status |-> 400, verified |-> FALSE]
    ELSE [status |-> 200, verified |-> email \in verifiedEmails]

CheckVerificationReq(rawEmail) ==
    /\ status' = CheckVerification(rawEmail).status
    /\ op' = "check-verification"
    /\ relayErrors' = {}
    /\ outbox' = <<>>
    /\ UNCHANGED <<maps, tokenCount, issued, clock, feeds, consumed, wsvars>>

\* app.post('/request-verification')
RequestVerification(rawEmail) ==
    LET email == Trim(rawEmail) IN
    IF email = NoEmail THEN
        /\ status' = 400
        /\ UNCHANGED <<pendingVerifications, tokenCount, issued>>
    ELSE IF email \in Keys(subscriptions) THEN
        /\ status' = 400
        /\ UNCHANGED <<pendingVerifications, tokenCount, issued>>
    ELSE
        /\ tokenCount < MaxTokens
        /\ sendVerificationEmail(email)
        /\ status' = 200

\* what the relay does with the verification mail: the lazy transporter.verify and
\* transporter.sendMail both call back without error, or one of them with an error
RelayOutcomes == {"ok", "verify-error", "send-error"}

\* /request-verification with the callbacks of the transporter.verify its
\* sendVerificationEmail starts: the mail is handed to transporter.sendMail in the
\* callback of transporter.verify, and only when that reports no error; either
\* error is logged and nothing else
RequestVerificationRelayReq(rawEmail, relay) ==
    /\ RequestVerification(rawEmail)
    /\ op' = "request-verification"
    /\ IF status' = 200 THEN
           /\ outbox' = IF relay = "verify-error" THEN <<>>
                         ELSE <<VerificationMail(Trim(rawEmail),
                                   pendingVerifications'[Trim(rawEmail)].token)>>
           /\ relayErrors' = IF relay = "ok" THEN {} ELSE {Trim(rawEmail)}
       ELSE
           /\ outbox' = <<>>
           /\ relayErrors' = {}
    /\ UNCHANGED wsvars
    /\ UNCHANGED <<verifiedEmails, subscriptions, clock, feeds, consumed>>

\* that request with the relay taking the mail
RequestVerificationReq(rawEmail) == RequestVerificationRelayReq(rawEmail, "ok")

\* a test that takes the token of any pending entry, whichever email it is stored for
VerifyAcceptsAnyPending(email, token) ==
    \E e \in Keys(pendingVerifications) : pendingVerifications[e].token = token

\* the test of app.get('/verify'): a pending entry exists and its token matches
VerifyAccepts(email, token) ==
    /\ email \in Keys(pendingVerifications)
    /\ pendingVerifications[email].token = token

\* /verify that accepts any token for an email with a pending entry
VerifyAnyToken(email, token) ==
    IF email = NoEmail \/ token = NoToken THEN
        /\ status' = 400
        /\ UNCHANGED <<pendingVerifications, verifiedEmails, consumed>>
    ELSE IF email \notin Keys(pendingVerifications) THEN
        /\ status' = 400
        /\ UNCHANGED <<pendingVerifications, verifiedEmails, consumed>>
    ELSE
        /\ pendingVerifications' = MapDelete(pendingVerifications, email)
        /\ verifiedEmails' = verifiedEmails \cup {email}
        /\ consumed' = consumed \cup {<<email, token>>}
        /\ status' = 302

\* app.get('/verify'): the query's email is used as it arrives, untrimmed
Verify(email, token) ==
    IF email = NoEmail \/ token = NoToken THEN
        /\ status' = 400
        /\ UNCHANGED <<pendingVerifications, verifiedEmails, consumed>>
    ELSE IF ~VerifyAccepts(email, token) THEN
        /\ status' = 400
        /\ UNCHANGED <<pendingVerifications, verifiedEmails, consumed>>
    ELSE
        /\ pendingVerifications' = MapDelete(pendingVerifications, email)
        /\ verifiedEmails' = verifiedEmails \cup {email}
        /\ consumed' = consumed \cup {<<email, token>>}
        /\ status' = 302

VerifyReq(email, token) ==
    /\ Verify(email, token)
    /\ op' = "verify"
    /\ relayErrors' = {}
    /\ UNCHANGED wsvars
    /\ outbox' = <<>>
    /\ UNCHANGED <<subscriptions, tokenCount, issued, clock, feeds>>

\* /subscribe that adds the new items to the set already stored
SubscribeMerge(rawEmail, body) ==
    LET email == Trim(rawEmail)
        items == ItemsOf(body)
    IN
    IF email = NoEmail \/ Len(items) = 0 THEN
        /\ status' = 400
        /\ UNCHANGED subscriptions
    ELSE IF email \notin verifiedEmails THEN
        /\ status' = 400
        /\ UNCHANGED subscriptions
    ELSE
        /\ subscriptions' =
              MapSet(subscriptions, email,
                     SeqToSet(items) \cup
                        (IF email \in Keys(subscriptions) THEN subscriptions[email] ELSE {}))
        /\ status' = 200

\* /subscribe that takes an empty item list for a subscription to nothing
SubscribeEmptyList(rawEmail, body) ==
    LET email == Trim(rawEmail)
        items == ItemsOf(body)
    IN
    IF email = NoEmail THEN
        /\ status' = 400
        /\ UNCHANGED subscriptions
    ELSE IF email \notin verifiedEmails THEN
        /\ status' = 400
        /\ UNCHANGED subscriptions
    ELSE
        /\ subscriptions' = MapSet(subscriptions, email, SeqToSet(items))
        /\ status' = 200

\* /subscribe without the verifiedEmails test
SubscribeUnverified(rawEmail, body) ==
    LET email == Trim(rawEmail)
        items == ItemsOf(body)
    IN
    IF email = NoEmail \/ Len(items) = 0 THEN
        /\ status' = 400
        /\ UNCHANGED subscriptions
    ELSE
        /\ subscriptions' = MapSet(subscriptions, email, SeqToSet(items))
        /\ status' = 200

\* app.post('/subscribe')
Subscribe(rawEmail, body) ==
    LET email == Trim(rawEmail)
        items == ItemsOf(body)
    IN
    IF email = NoEmail \/ Len(items) = 0 THEN
        /\ status' = 400
        /\ UNCHANGED subscriptions
    ELSE IF email \notin verifiedEmails THEN
        /\ status' = 400
        /\ UNCHANGED subscriptions
    ELSE
        /\ subscriptions' = MapSet(subscriptions, email, SeqToSet(items))
        /\ status' = 200

SubscribeReq(rawEmail, body) ==
    /\ Subscribe(rawEmail, body)
    /\ op' = "subscribe"
    /\ relayErrors' = {}
    /\ UNCHANGED wsvars
    /\ outbox' = <<>>
    /\ UNCHANGED <<pendingVerifications, verifiedEmails, tokenCount, issued, clock, feeds,
                   consumed>>

\* /unsub that drops the verification before it knows a subscription existed
UnsubDropsVerified(rawEmail) ==
    LET email == Trim(rawEmail) IN
    IF email = NoEmail THEN
        /\ status' = 400
        /\ UNCHANGED <<subscriptions, verifiedEmails>>
    ELSE IF email \in Keys(subscriptions) THEN
        /\ subscriptions' = MapDelete(subscriptions, email)
        /\ verifiedEmails' = verifiedEmails \ {email}
        /\ status' = 302
    ELSE
        /\ status' = 200
        /\ verifiedEmails' = verifiedEmails \ {email}
        /\ UNCHANGED subscriptions

\* /unsub that deletes the subscription and leaves the email verified
UnsubKeepsVerified(rawEmail) ==
    LET email == Trim(rawEmail) IN
    IF email = NoEmail THEN
        /\ status' = 400
        /\ UNCHANGED <<subscriptions, verifiedEmails>>
    ELSE IF email \in Keys(subscriptions) THEN
        /\ subscriptions' = MapDelete(subscriptions, email)
        /\ UNCHANGED verifiedEmails
        /\ status' = 302
    ELSE
        /\ status' = 200
        /\ UNCHANGED <<subscriptions, verifiedEmails>>

\* app.get('/unsub')
Unsub(rawEmail) ==
    LET email == Trim(rawEmail) IN
    IF email = NoEmail THEN
        /\ status' = 400
        /\ UNCHANGED <<subscriptions, verifiedEmails>>
    ELSE IF email \in Keys(subscriptions) THEN
        /\ subscriptions' = MapDelete(subscriptions, email)
        /\ verifiedEmails' = verifiedEmails \ {email}
        /\ status' = 302
    ELSE
        /\ status' = 200
        /\ UNCHANGED <<subscriptions, verifiedEmails>>

UnsubReq(rawEmail) ==
    /\ Unsub(rawEmail)
    /\ op' = "unsub"
    /\ relayErrors' = {}
    /\ UNCHANGED wsvars
    /\ outbox' = <<>>
    /\ UNCHANGED <<pendingVerifications, tokenCount, issued, clock, feeds, consumed>>

\* the address /test-email writes to when the query names none: 'test@example.com'
DefaultTestEmail == <<"test@example.com">>

\* the mail of /test-email
TestMail(to) == [to |-> to, kind |-> "test", body |-> [text |-> "This is a test email."]]

\* app.get('/test-email'): req.query.email?.trim() || 'test@example.com', and one
\* sendEmail to that address
TestEmailReq(rawEmail) ==
    /\ outbox' = <<TestMail(IF Trim(rawEmail) = NoEmail THEN DefaultTestEmail
                            ELSE Trim(rawEmail))>>
    /\ status' = 200
    /\ op' = "test-email"
    /\ relayErrors' = {}
    /\ UNCHANGED <<maps, tokenCount, issued, clock, feeds, consumed, wsvars>>

----------------------------------------------------------------------------
(* Upstream payloads *)

WeatherIds == {"rain", "frost"}

\* one entry of data.weather
WeatherEvents == [weather_id : WeatherIds, active : BOOLEAN]

\* arrays of at most n elements of S
SeqsUpTo(S, n) == UNION {[1..k -> S] : k \in 0..n}

\* a weather payload: the events, and rev for every other field of the payload
\* (timestamps, key order), which changes the serialization and nothing else
WeatherPayloads == [weather : SeqsUpTo(WeatherEvents, MaxEvents), rev : 0..MaxRev]

\* one entry of a stock category; item_id "" is an entry without item_id
StockItems == [item_id : ItemIds \cup {""}, quantity : {0, 3}]

\* the categories buildStockHtmlEmail reads, in its order
StockCategories == <<"seed_stock", "gear_stock", "egg_stock", "cosmetic_stock", "event_stock">>

\* the categories the bounded payloads fill; a category may also be absent
FilledCategories == {"seed_stock", "gear_stock"}

\* a stock payload: a mapping from the categories present to their arrays
StockPayloads ==
    UNION {[cats -> SeqsUpTo(StockItems, MaxStock)] : cats \in SUBSET FilledCategories}

\* JSON.stringify(data): the fields in key order; injective on parsed payloads
StringifyWeather(data) == <<"{", "weather", data.weather, "rev", data.rev, "}">>

\* JSON.stringify(data) of a stock payload: its categories in order, each with its array
RECURSIVE StringifyFrom(_, _)
StringifyFrom(data, i) ==
    IF i > Len(StockCategories) THEN <<>>
    ELSE (IF StockCategories[i] \in DOMAIN data
          THEN <<StockCategories[i], data[StockCategories[i]]>>
          ELSE <<>>) \o StringifyFrom(data, i + 1)

StringifyStock(data) == <<"{">> \o StringifyFrom(data, 1) \o <<"}">>

\* a comparison that reports every payload as new
hasDataChangedAlways(oldJSON, newJSON) == TRUE

\* a comparison that takes the first payload, with nothing stored, for no change
hasDataChangedAfterFirst(oldJSON, newJSON) == oldJSON # null /\ oldJSON # newJSON

\* hasDataChanged(oldJSON, newJSON): oldJSON !== newJSON
hasDataChanged(oldJSON, newJSON) == oldJSON # newJSON

----------------------------------------------------------------------------
(* Mail *)

\* sendEmail(subject, htmlBody, recipientEmail): one mail handed to transporter.sendMail
\* the two texts of the Duration row of the weather mail
Unknown == [text |-> "Unknown"]

Minutes(n) == [minutes |-> n]

\* buildWeatherHtmlEmail(weatherEvent, ...): the event it names and its Duration row,
\*   weatherEvent.duration ? `${Math.floor(weatherEvent.duration / 60)} minutes` : 'Unknown'
\* an event without a duration has undefined there, which is falsy, as 0 is
buildWeatherHtmlEmail(weatherEvent) ==
    [weather_id |-> weatherEvent.weather_id,
     duration |-> IF "duration" \in DOMAIN weatherEvent /\ weatherEvent.duration # 0
                  THEN Minutes(weatherEvent.duration \div 60)
                  ELSE Unknown]

WeatherMail(to, event) ==
    [to |-> to, kind |-> "weather", body |-> buildWeatherHtmlEmail(event)]

StockMail(to, rows) == [to |-> to, kind |-> "stock", body |-> rows]

\* Map.prototype.forEach: the keys of a map, each once (insertion order is not modelled)
RECURSIVE KeySeq(_)
KeySeq(S) == IF S = {} THEN <<>> ELSE LET k == CHOOSE x \in S : TRUE IN <<k>> \o KeySeq(S \ {k})

\* Array.prototype.find(w => w.active): the index of the first active event, 0 if none
RECURSIVE FindActiveFrom(_, _)
FindActiveFrom(events, i) ==
    IF i > Len(events) THEN 0
    ELSE IF events[i].active THEN i
    ELSE FindActiveFrom(events, i + 1)

\* data.weather?.find(w => w.active), null standing for undefined
FindActive(data) ==
    LET i == FindActiveFrom(data.weather, 1) IN
    IF i = 0 THEN nullObj ELSE data.weather[i]

\* latestWeatherDataObj ? latestWeatherDataObj.weather?.find(w => w.active) : null
PrevActive ==
    IF latestWeatherDataObj = nullObj THEN nullObj ELSE FindActive(latestWeatherDataObj)

\* an announcement for every changed payload that has an active event
IsActiveEvent(activeEvent, prevActiveEvent) == activeEvent # nullObj

\* the condition under which pollWeatherAPI announces activeEvent
IsNewActiveEvent(activeEvent, prevActiveEvent) ==
    /\ activeEvent # nullObj
    /\ \/ prevActiveEvent = nullObj
       \/ activeEvent.weather_id # prevActiveEvent.weather_id

\* a fan-out that stops after the first subscriber
WeatherFanOutFirst(activeEvent) ==
    LET keys == KeySeq(Keys(subscriptions)) IN
    [i \in 1..(IF Len(keys) > 0 THEN 1 ELSE 0) |-> WeatherMail(keys[i], activeEvent)]

\* a fan-out over the verified addresses instead of the subscribers
WeatherFanOutVerified(activeEvent) ==
    LET keys == KeySeq(verifiedEmails) IN
    [i \in 1..Len(keys) |-> WeatherMail(keys[i], activeEvent)]

\* subscriptions.forEach((_, email) => sendEmail(..., email)) of pollWeatherAPI
WeatherFanOut(activeEvent) ==
    LET keys == KeySeq(Keys(subscriptions)) IN
    [i \in 1..Len(keys) |-> WeatherMail(keys[i], activeEvent)]

\* a sendEmail out of which the relay's error escapes: the forEach of the fan-out
\* ends at the first recipient in failing
sendEmailThrows(mails, failing) ==
    LET bad == {i \in DOMAIN mails : mails[i].to \in failing}
        last == IF bad = {} THEN Len(mails) ELSE CHOOSE i \in bad : \A j \in bad : i <= j
    IN [handed |-> SubSeq(mails, 1, last),
        logged |-> {mails[i].to : i \in 1..last} \cap failing]

\* sendEmail called for the mails of a fan-out in turn, the relay failing for the
\* recipients in failing: transporter.sendMail takes every mail, and its callback
\* logs the error of each failed one
sendEmail(mails, failing) ==
    [handed |-> mails, logged |-> {mails[i].to : i \in DOMAIN mails} \cap failing]

\* pollWeatherAPI once its fetch has resolved with data, the relay failing for the
\* recipients in failing
PollWeatherRelay(data, failing) ==
    LET newDataJSON == StringifyWeather(data) IN
    IF hasDataChanged(latestWeatherDataJSON, newDataJSON) THEN
        /\ LET sent == sendEmail(IF IsNewActiveEvent(FindActive(data), PrevActive)
                                 THEN WeatherFanOut(FindActive(data))
                                 ELSE <<>>, failing)
           IN /\ outbox' = sent.handed
              /\ relayErrors' = sent.logged
        /\ latestWeatherDataJSON' = newDataJSON
        /\ latestWeatherDataObj' = data
    ELSE
        /\ outbox' = <<>>
        /\ relayErrors' = {}
        /\ UNCHANGED <<flights, latestWeatherDataJSON, latestWeatherDataObj>>

\* pollWeatherAPI once its fetch has resolved with data, the relay taking every mail
PollWeather(data) == PollWeatherRelay(data, {})

PollWeatherStep(data) ==
    /\ PollWeather(data)
    /\ op' = "weather"
    /\ UNCHANGED wsvars
    /\ status' = 0
    /\ UNCHANGED <<flights, maps, tokenCount, issued, clock, latestStockDataJSON, latestStockDataObj,
                   itemInfo, stockAwait, consumed>>

\* that poll, the relay failing for the recipients in failing
PollWeatherRelayStep(data, failing) ==
    /\ PollWeatherRelay(data, failing)
    /\ op' = "weather"
    /\ status' = 0
    /\ UNCHANGED wsvars
    /\ UNCHANGED <<flights, maps, tokenCount, issued, clock, latestStockDataJSON, latestStockDataObj,
                   itemInfo, stockAwait, consumed>>

\* pollWeatherAPI when the fetch rejects or answers non-2xx: the catch only logs
PollWeatherError ==
    /\ op' = "weather-error"
    /\ relayErrors' = {}
    /\ UNCHANGED wsvars
    /\ outbox' = <<>>
    /\ status' = 0
    /\ UNCHANGED <<maps, tokenCount, issued, clock, feeds, consumed>>

\* the weather_id of the event data reports active, "" if it reports none
ActiveIdOf(data) ==
    IF data = nullObj THEN ""
    ELSE IF FindActive(data) = nullObj THEN ""
    ELSE FindActive(data).weather_id

\* the weather endpoint begins to answer with data; an event it no longer reports
\* active has stopped being announced
WeatherUpstreamChanges(data) ==
    /\ data # weatherUpstream
    /\ weatherUpstream' = data
    /\ announced' = announced \cap {ActiveIdOf(data)}
    /\ op' = "weather-upstream"
    /\ status' = 0
    /\ outbox' = <<>>
    /\ relayErrors' = {}
    /\ UNCHANGED <<maps, tokenCount, issued, clock, latestWeatherDataJSON,
                   latestWeatherDataObj, latestStockDataJSON, latestStockDataObj,
                   itemInfo, stockAwait, weatherFetches, weatherChains, consumed, wsvars>>

\* a tick of setInterval(pollWeatherAPI, 15000): pollWeatherAPI suspends on
\* await fetch(weatherURL), which the endpoint answers with what it has now; nothing
\* keeps a tick from firing while earlier fetches are in flight
PollWeatherFetch ==
    /\ weatherUpstream # nullObj
    /\ Len(weatherFetches) < MaxFlights
    /\ weatherFetches' = Append(weatherFetches, weatherUpstream)
    /\ op' = "weather-fetch"
    /\ status' = 0
    /\ outbox' = <<>>
    /\ relayErrors' = {}
    /\ UNCHANGED <<maps, tokenCount, issued, clock, latestWeatherDataJSON,
                   latestWeatherDataObj, latestStockDataJSON, latestStockDataObj,
                   itemInfo, stockAwait, weatherUpstream, announced, weatherChains,
                   consumed, wsvars>>

\* the response of the i-th fetch in flight arrives, whichever it is, and its
\* pollWeatherAPI goes on from the await to its end
PollWeatherResponse(i) ==
    /\ i \in DOMAIN weatherFetches
    /\ PollWeatherRelay(weatherFetches[i], {})
    /\ weatherFetches' = [j \in 1..(Len(weatherFetches) - 1) |->
                             IF j < i THEN weatherFetches[j] ELSE weatherFetches[j + 1]]
    /\ announced' = IF outbox' # <<>>
                       /\ ActiveIdOf(weatherFetches[i]) = ActiveIdOf(weatherUpstream)
                    THEN announced \cup {ActiveIdOf(weatherFetches[i])}
                    ELSE announced
    /\ op' = "weather"
    /\ status' = 0
    /\ UNCHANGED <<maps, tokenCount, issued, clock, latestStockDataJSON,
                   latestStockDataObj, itemInfo, stockAwait, weatherUpstream,
                   weatherChains, consumed, wsvars>>

----------------------------------------------------------------------------
(* Stock poller *)

\* one entry of the item catalog
ItemData(id) == [item_id |-> id, icon |-> <<"icon-of", id>>]

\* what fetchItemInfo can leave in itemInfo: [] (failure, or nothing usable) or a catalog
Catalogs == {<<>>, <<ItemData("carrot")>>}

\* allStockItems: the arrays of the categories present, concatenated in order
RECURSIVE AllStockItemsFrom(_, _)
AllStockItemsFrom(data, i) ==
    IF i > Len(StockCategories) THEN <<>>
    ELSE (IF StockCategories[i] \in DOMAIN data THEN data[StockCategories[i]] ELSE <<>>)
         \o AllStockItemsFrom(data, i + 1)

AllStockItems(data) == AllStockItemsFrom(data, 1)

\* itemData?.icon || `https://image.joshlei.com/${item.item_id}.png`
IconUrl(info, id) ==
    LET hits == SelectSeq(info, LAMBDA x : x.item_id = id) IN
    IF hits # <<>> THEN hits[1].icon ELSE <<"image.joshlei.com", id>>

\* one row of the mail's table
StockRow(info, item) ==
    [item_id |-> item.item_id, quantity |-> item.quantity,
     icon |-> IconUrl(info, item.item_id)]

\* a filter that forgets the quantity
InStockItemsAnyQuantity(data, userSelections) ==
    SelectSeq(AllStockItems(data), LAMBDA item : item.item_id \in userSelections)

\* inStockItems of buildStockHtmlEmail
InStockItems(data, userSelections) ==
    SelectSeq(AllStockItems(data),
              LAMBDA item : item.item_id \in userSelections /\ item.quantity > 0)

\* buildStockHtmlEmail(data, recipientEmail), info being itemInfo when it runs:
\* nullObj, or the rows of the table and the address of the unsubscribe link
buildStockHtmlEmail(data, recipientEmail, info) ==
    IF recipientEmail \notin Keys(subscriptions) THEN nullObj
    ELSE LET inStockItems == InStockItems(data, subscriptions[recipientEmail]) IN
         IF Len(inStockItems) > 0
         THEN [rows |-> [i \in 1..Len(inStockItems) |-> StockRow(info, inStockItems[i])],
               unsub |-> recipientEmail]
         ELSE nullObj

\* the categories the WebSocket variant's buildStockHtmlEmail reads, in its order
StockCategoriesWS ==
    <<"seed_stock", "gear_stock", "egg_stock", "cosmetic_stock", "eventshop_stock">>

\* allStockItems of the WebSocket variant: entries without item_id are dropped
RECURSIVE AllStockItemsWSFrom(_, _)
AllStockItemsWSFrom(data, i) ==
    IF i > Len(StockCategoriesWS) THEN <<>>
    ELSE (IF StockCategoriesWS[i] \in DOMAIN data
          THEN SelectSeq(data[StockCategoriesWS[i]], LAMBDA item : item.item_id # "")
          ELSE <<>>)
         \o AllStockItemsWSFrom(data, i + 1)

\* itemInfo.find(...)?.icon || `https://api.joshlei.com/v2/growagarden/image/${item.item_id}`
IconUrlWS(info, id) ==
    LET hits == SelectSeq(info, LAMBDA x : x.item_id = id) IN
    IF hits # <<>> THEN hits[1].icon ELSE <<"api.joshlei.com/v2/growagarden/image", id>>

\* buildStockHtmlEmail(data, recipientEmail) of the WebSocket variant
buildStockHtmlEmailWS(data, recipientEmail, info) ==
    IF recipientEmail \notin Keys(subscriptions) THEN nullObj
    ELSE LET inStockItems ==
                 SelectSeq(AllStockItemsWSFrom(data, 1),
                           LAMBDA item : /\ item.item_id \in subscriptions[recipientEmail]
                                         /\ item.quantity > 0)
         IN IF Len(inStockItems) > 0
            THEN [rows |-> [i \in 1..Len(inStockItems) |->
                              [item_id |-> inStockItems[i].item_id,
                               quantity |-> inStockItems[i].quantity,
                               icon |-> IconUrlWS(info, inStockItems[i].item_id)]],
                  unsub |-> recipientEmail]
            ELSE nullObj

\* a fan-out that mails nobody while the catalog is empty
StockFanOutNeedsCatalog(data, info) ==
    LET keys == SelectSeq(KeySeq(Keys(subscriptions)),
                          LAMBDA e : info # <<>> /\ buildStockHtmlEmail(data, e, info) # nullObj)
    IN [i \in 1..Len(keys) |-> StockMail(keys[i], buildStockHtmlEmail(data, keys[i], info))]

\* subscriptions.forEach(...): if (html) sendEmail(subject, html, email)
StockFanOut(data, info) ==
    LET keys == SelectSeq(KeySeq(Keys(subscriptions)),
                          LAMBDA e : buildStockHtmlEmail(data, e, info) # nullObj)
    IN [i \in 1..Len(keys) |-> StockMail(keys[i], buildStockHtmlEmail(data, keys[i], info))]

\* a pollStockAPI that stores the last-seen snapshot only when it fans out, after
\* the awaited catalog fetch
PollStockRelayStoresLate(data, failing) ==
    LET newDataJSON == StringifyStock(data) IN
    IF hasDataChanged(latestStockDataJSON, newDataJSON) THEN
        IF Len(itemInfo) = 0
        THEN /\ Len(stockAwait) < MaxAwait
             /\ stockAwait' = Append(stockAwait, data)
             /\ outbox' = <<>>
             /\ relayErrors' = {}
             /\ UNCHANGED <<latestStockDataJSON, latestStockDataObj>>
        ELSE /\ latestStockDataJSON' = newDataJSON
             /\ latestStockDataObj' = data
             /\ LET sent == sendEmail(StockFanOut(data, itemInfo), failing)
                IN /\ outbox' = sent.handed
                   /\ relayErrors' = sent.logged
             /\ UNCHANGED stockAwait
    ELSE
        /\ outbox' = <<>>
        /\ relayErrors' = {}
        /\ UNCHANGED <<latestStockDataJSON, latestStockDataObj, stockAwait>>

\* pollStockAPI once its fetch has resolved with data, up to await fetchItemInfo(),
\* the relay failing for the recipients in failing
PollStockRelay(data, failing) ==
    LET newDataJSON == StringifyStock(data) IN
    IF hasDataChanged(latestStockDataJSON, newDataJSON) THEN
        /\ latestStockDataJSON' = newDataJSON
        /\ latestStockDataObj' = data
        /\ IF Len(itemInfo) = 0
           THEN /\ Len(stockAwait) < MaxAwait
                /\ stockAwait' = Append(stockAwait, data)
                /\ outbox' = <<>>
                /\ relayErrors' = {}
           ELSE /\ LET sent == sendEmail(StockFanOut(data, itemInfo), failing)
                   IN /\ outbox' = sent.handed
                      /\ relayErrors' = sent.logged
                /\ UNCHANGED stockAwait
    ELSE
        /\ outbox' = <<>>
        /\ relayErrors' = {}
        /\ UNCHANGED <<flights, latestStockDataJSON, latestStockDataObj, stockAwait>>

\* pollStockAPI up to await fetchItemInfo(), the relay taking every mail
PollStock(data) == PollStockRelay(data, {})

PollStockStep(data) ==
    /\ PollStock(data)
    /\ op' = "stock"
    /\ UNCHANGED wsvars
    /\ status' = 0
    /\ UNCHANGED <<flights, maps, tokenCount, issued, clock, latestWeatherDataJSON, latestWeatherDataObj,
                   itemInfo, consumed>>

\* that poll, the relay failing for the recipients in failing
PollStockRelayStep(data, failing) ==
    /\ PollStockRelay(data, failing)
    /\ op' = "stock"
    /\ status' = 0
    /\ UNCHANGED wsvars
    /\ UNCHANGED <<flights, maps, tokenCount, issued, clock, latestWeatherDataJSON, latestWeatherDataObj,
                   itemInfo, consumed>>

\* the awaited fetchItemInfo() of the i-th suspended poll settles, leaving catalog in
\* itemInfo, and that poll goes on to its fan-out with the data it fetched
PollStockResumeRelay(i, catalog, failing) ==
    /\ i \in DOMAIN stockAwait
    /\ itemInfo' = catalog
    /\ LET sent == sendEmail(StockFanOut(stockAwait[i], catalog), failing)
       IN /\ outbox' = sent.handed
          /\ relayErrors' = sent.logged
    /\ stockAwait' = [j \in 1..(Len(stockAwait) - 1) |->
                         IF j < i THEN stockAwait[j] ELSE stockAwait[j + 1]]
    /\ op' = "stock-resume"
    /\ UNCHANGED wsvars
    /\ status' = 0
    /\ UNCHANGED <<flights, maps, tokenCount, issued, clock, latestWeatherDataJSON, latestWeatherDataObj,
                   latestStockDataJSON, latestStockDataObj, consumed>>

\* that step, the relay taking every mail
PollStockResume(i, catalog) == PollStockResumeRelay(i, catalog, {})

\* a catch that forgets the last-seen snapshot
PollStockErrorForgets ==
    /\ latestStockDataJSON' = null
    /\ latestStockDataObj' = nullObj
    /\ op' = "stock-error"
    /\ relayErrors' = {}
    /\ status' = 0
    /\ outbox' = <<>>
    /\ UNCHANGED <<flights, maps, tokenCount, issued, clock, latestWeatherDataJSON, latestWeatherDataObj,
                   itemInfo, stockAwait, consumed, wsvars>>

\* pollStockAPI when the fetch rejects or answers non-2xx: the catch only logs
PollStockError ==
    /\ op' = "stock-error"
    /\ relayErrors' = {}
    /\ UNCHANGED wsvars
    /\ outbox' = <<>>
    /\ status' = 0
    /\ UNCHANGED <<maps, tokenCount, issued, clock, feeds, consumed>>

\* fetchItemInfo() of server.listen's callback and of /refresh-items settles
FetchItemInfo(catalog) ==
    /\ itemInfo' = catalog
    /\ op' = "item-info"
    /\ relayErrors' = {}
    /\ UNCHANGED wsvars
    /\ outbox' = <<>>
    /\ status' = 0
    /\ UNCHANGED <<flights, maps, tokenCount, issued, clock, latestWeatherDataJSON, latestWeatherDataObj,
                   latestStockDataJSON, latestStockDataObj, stockAwait, consumed>>

----------------------------------------------------------------------------
(* Timers *)

\* a loop that deletes an entry as soon as its age reaches expirationTime
ExpiredAtLimit(t) ==
    {e \in Keys(pendingVerifications) :
        t - pendingVerifications[e].timestamp >= expirationTime}

\* the entries the sweep's loop deletes: now - timestamp > expirationTime
Expired(t) ==
    {e \in Keys(pendingVerifications) :
        t - pendingVerifications[e].timestamp > expirationTime}

\* the body of the hourly setInterval callback
ExpirySweep ==
    pendingVerifications' =
        [e \in Keys(pendingVerifications) \ Expired(now) |-> pendingVerifications[e]]

\* the sweep timer fires: once in every sweepInterval
Sweep ==
    /\ now - lastSweep >= sweepInterval
    /\ ExpirySweep
    /\ lastSweep' = now
    /\ op' = "sweep"
    /\ relayErrors' = {}
    /\ UNCHANGED wsvars
    /\ outbox' = <<>>
    /\ status' = 0
    /\ UNCHANGED <<verifiedEmails, subscriptions, tokenCount, issued, now, feeds, consumed>>

\* d hours pass; the timer does not skip a period, so it has fired for the one before
Tick(d) ==
    /\ now - lastSweep < sweepInterval
    /\ now + d <= MaxTime
    /\ now' = now + d
    /\ op' = "idle"
    /\ relayErrors' = {}
    /\ UNCHANGED wsvars
    /\ status' = 0
    /\ outbox' = <<>>
    /\ UNCHANGED <<maps, tokenCount, issued, lastSweep, feeds, consumed>>

----------------------------------------------------------------------------
(* The WebSocket variant (src/unnamed/part_000 lines 855-1483) *)

\* maxAttempts = 5 of fetchItemInfo(attempt = 1, maxAttempts = 5)
maxAttempts == 5

\* Math.pow(2, attempt), the seconds of Math.pow(2, attempt) * 1000
RECURSIVE Pow2(_)
Pow2(n) == IF n = 0 THEN 1 ELSE 2 * Pow2(n - 1)

\* what becomes of the process once the promises of sendEmail have settled, logged
\* being the recipients whose promise was rejected: nobody handles the rejection,
\* which ends the process on Node.js 15 and later and is a warning before
UnhandledRejection(logged) == IF logged = {} THEN {TRUE} ELSE BOOLEAN

\* the items the message handler keeps: newData[category].filter(item => item.item_id)
FilterItems(data) ==
    [c \in DOMAIN data |->
        IF c \in {StockCategoriesWS[k] : k \in DOMAIN StockCategoriesWS}
        THEN SelectSeq(data[c], LAMBDA item : item.item_id # "")
        ELSE data[c]]

\* subscriptions.forEach of the message handler
StockFanOutWS(data, info) ==
    LET keys == SelectSeq(KeySeq(Keys(subscriptions)),
                          LAMBDA e : buildStockHtmlEmailWS(data, e, info) # nullObj)
    IN [i \in 1..Len(keys) |-> StockMail(keys[i], buildStockHtmlEmailWS(data, keys[i], info))]

\* ws.on('open')
WsOpened ==
    /\ alive
    /\ wsConnecting > 0
    /\ wsConnecting' = wsConnecting - 1
    /\ wsOpen' = wsOpen + 1
    /\ op' = "ws-open"
    /\ status' = 0
    /\ outbox' = <<>>
    /\ relayErrors' = {}
    /\ UNCHANGED <<maps, tokenCount, issued, clock, feeds, consumed, variant, startupVerify, alive,
                   reconnectTimers, itemChain>>

\* ws.on('message') with a frame that parses to data, the relay failing for the
\* recipients in failing
WsMessage(data, failing) ==
    /\ alive
    /\ wsOpen > 0
    /\ LET newDataJSON == StringifyStock(data)
           newData == FilterItems(data)
       IN IF hasDataChanged(latestStockDataJSON, newDataJSON) THEN
              /\ latestStockDataJSON' = newDataJSON
              /\ latestStockDataObj' = newData
              /\ LET sent == sendEmail(StockFanOutWS(newData, itemInfo), failing)
                 IN /\ outbox' = sent.handed
                    /\ relayErrors' = sent.logged
          ELSE
              /\ outbox' = <<>>
              /\ relayErrors' = {}
              /\ UNCHANGED <<flights, latestStockDataJSON, latestStockDataObj>>
    /\ alive' \in UnhandledRejection(relayErrors')
    /\ op' = "ws-message"
    /\ status' = 0
    /\ UNCHANGED <<flights, maps, tokenCount, issued, clock, latestWeatherDataJSON, latestWeatherDataObj,
                   itemInfo, stockAwait, consumed, variant, startupVerify, wsConnecting, wsOpen,
                   reconnectTimers, itemChain>>

\* ws.on('message') with a frame JSON.parse rejects: the catch only logs
WsMessageError ==
    /\ alive
    /\ wsOpen > 0
    /\ op' = "ws-message-error"
    /\ status' = 0
    /\ outbox' = <<>>
    /\ relayErrors' = {}
    /\ UNCHANGED <<maps, tokenCount, issued, clock, feeds, consumed, wsvars>>

\* a close handler that arms two reconnect timers
OnCloseTwice == reconnectTimers' = reconnectTimers + 2

\* ws.on('close'): setTimeout(connectWebSocket, 5000)
OnClose == reconnectTimers' = reconnectTimers + 1

\* an open upstream connection closes
WsClosed ==
    /\ alive
    /\ wsOpen > 0
    /\ wsOpen' = wsOpen - 1
    /\ OnClose
    /\ op' = "ws-close"
    /\ status' = 0
    /\ outbox' = <<>>
    /\ relayErrors' = {}
    /\ UNCHANGED <<maps, tokenCount, issued, clock, feeds, consumed, variant, startupVerify, alive,
                   wsConnecting, itemChain>>

\* a connection attempt fails: the socket emits 'error', which ws.on('error') logs,
\* and then 'close'
WsConnectFailed ==
    /\ alive
    /\ wsConnecting > 0
    /\ wsConnecting' = wsConnecting - 1
    /\ OnClose
    /\ op' = "ws-connect-failed"
    /\ status' = 0
    /\ outbox' = <<>>
    /\ relayErrors' = {}
    /\ UNCHANGED <<maps, tokenCount, issued, clock, feeds, consumed, variant, startupVerify, alive,
                   wsOpen, itemChain>>

\* the timer of ws.on('close') fires: connectWebSocket()
ConnectWebSocket ==
    /\ alive
    /\ reconnectTimers > 0
    /\ reconnectTimers' = reconnectTimers - 1
    /\ wsConnecting' = wsConnecting + 1
    /\ op' = "ws-connect"
    /\ status' = 0
    /\ outbox' = <<>>
    /\ relayErrors' = {}
    /\ UNCHANGED <<maps, tokenCount, issued, clock, feeds, consumed, variant, startupVerify, alive,
                   wsOpen, itemChain>>

\* a catch that schedules a retry after the last attempt as well
ItemInfoCatchOneMore(chain) ==
    IF chain.attempt <= maxAttempts
    THEN [attempt |-> chain.attempt, phase |-> "wait", delay |-> Pow2(chain.attempt)]
    ELSE NoChain

\* the catch of fetchItemInfo(attempt): the timer it leaves behind, if any
ItemInfoCatch(chain) ==
    IF chain.attempt < maxAttempts
    THEN [attempt |-> chain.attempt, phase |-> "wait", delay |-> Pow2(chain.attempt)]
    ELSE NoChain

\* fetchItemInfo() called with no chain under way (by '/', /refresh-items, /get-items)
StartItemChain ==
    /\ alive
    /\ itemChain = NoChain
    /\ itemChain' = [attempt |-> 1, phase |-> "fetch", delay |-> 0]
    /\ op' = "ws-fetch-items"
    /\ status' = 0
    /\ outbox' = <<>>
    /\ relayErrors' = {}
    /\ UNCHANGED <<maps, tokenCount, issued, clock, feeds, consumed, variant, startupVerify, alive,
                   wsConnecting, wsOpen, reconnectTimers>>

\* the fetch of fetchItemInfo(attempt) resolves and catalog is what the filter keeps
ItemInfoFetched(catalog) ==
    /\ alive
    /\ itemChain.phase = "fetch"
    /\ itemInfo' = catalog
    /\ itemChain' = NoChain
    /\ op' = "ws-item-info"
    /\ status' = 0
    /\ outbox' = <<>>
    /\ relayErrors' = {}
    /\ UNCHANGED <<flights, maps, tokenCount, issued, clock, latestWeatherDataJSON, latestWeatherDataObj,
                   latestStockDataJSON, latestStockDataObj, stockAwait, consumed,
                   variant, startupVerify, alive, wsConnecting, wsOpen, reconnectTimers>>

\* the fetch of fetchItemInfo(attempt) rejects, answers non-2xx or cannot be read
ItemInfoFailed ==
    /\ alive
    /\ itemChain.phase = "fetch"
    /\ itemChain' = ItemInfoCatch(itemChain)
    /\ itemInfo' = IF itemChain.attempt < maxAttempts THEN itemInfo ELSE <<>>
    /\ op' = "ws-item-info-failed"
    /\ status' = 0
    /\ outbox' = <<>>
    /\ relayErrors' = {}
    /\ UNCHANGED <<flights, maps, tokenCount, issued, clock, latestWeatherDataJSON, latestWeatherDataObj,
                   latestStockDataJSON, latestStockDataObj, stockAwait, consumed,
                   variant, startupVerify, alive, wsConnecting, wsOpen, reconnectTimers>>

\* the timer of the catch fires: fetchItemInfo(attempt + 1, maxAttempts)
ItemInfoRetry ==
    /\ alive
    /\ itemChain.phase = "wait"
    /\ itemChain' = [attempt |-> itemChain.attempt + 1, phase |-> "fetch", delay |-> 0]
    /\ op' = "ws-item-retry"
    /\ status' = 0
    /\ outbox' = <<>>
    /\ relayErrors' = {}
    /\ UNCHANGED <<maps, tokenCount, issued, clock, feeds, consumed, variant, startupVerify, alive,
                   wsConnecting, wsOpen, reconnectTimers>>

\* pollWeatherAPI of the WebSocket variant once its fetch has resolved with data: the
\* test and the fan-out of the polling variant, sendEmail returning promises
PollWeatherWS(data, failing) ==
    /\ alive
    /\ PollWeatherRelay(data, failing)
    /\ alive' \in UnhandledRejection(relayErrors')
    /\ op' = "ws-weather"
    /\ status' = 0
    /\ UNCHANGED <<flights, maps, tokenCount, issued, clock, latestStockDataJSON, latestStockDataObj,
                   itemInfo, stockAwait, consumed, variant, startupVerify, wsConnecting, wsOpen,
                   reconnectTimers, itemChain>>

\* a catch that schedules a retry after the last attempt as well
WeatherCatchOneMore(chain) ==
    IF chain.attempt <= maxAttempts
    THEN <<[attempt |-> chain.attempt, phase |-> "wait", delay |-> Pow2(chain.attempt)]>>
    ELSE <<>>

\* the catch of pollWeatherAPI(attempt, maxAttempts): the timer it leaves behind,
\*   if (attempt < maxAttempts) setTimeout(..., Math.pow(2, attempt) * 1000)
\* or nothing
WeatherCatch(chain) ==
    IF chain.attempt < maxAttempts
    THEN <<[attempt |-> chain.attempt, phase |-> "wait", delay |-> Pow2(chain.attempt)]>>
    ELSE <<>>

\* chains with the i-th replaced by the chains in by
ReplaceChain(chains, i, by) ==
    SubSeq(chains, 1, i - 1) \o by \o SubSeq(chains, i + 1, Len(chains))

\* a tick of setInterval(pollWeatherAPI, 15000): pollWeatherAPI() with attempt = 1
\* suspends on its fetch, whatever earlier chains are doing
WeatherTickWS ==
    /\ alive
    /\ Len(weatherChains) < MaxChains
    /\ weatherChains' = Append(weatherChains, [attempt |-> 1, phase |-> "fetch", delay |-> 0])
    /\ op' = "ws-weather-tick"
    /\ status' = 0
    /\ outbox' = <<>>
    /\ relayErrors' = {}
    /\ UNCHANGED <<maps, tokenCount, issued, clock, latestWeatherDataJSON,
                   latestWeatherDataObj, latestStockDataJSON, latestStockDataObj,
                   itemInfo, stockAwait, weatherUpstream, weatherFetches, announced,
                   consumed, wsvars>>

\* the fetch of the i-th chain resolves with data: the poll runs to its end, the
\* relay failing for the recipients in failing
WeatherChainFetched(i, data, failing) ==
    /\ alive
    /\ i \in DOMAIN weatherChains
    /\ weatherChains[i].phase = "fetch"
    /\ PollWeatherRelay(data, failing)
    /\ alive' \in UnhandledRejection(relayErrors')
    /\ weatherChains' = ReplaceChain(weatherChains, i, <<>>)
    /\ op' = "ws-weather"
    /\ status' = 0
    /\ UNCHANGED <<maps, tokenCount, issued, clock, latestStockDataJSON,
                   latestStockDataObj, itemInfo, stockAwait, weatherUpstream,
                   weatherFetches, announced, consumed, variant, startupVerify,
                   wsConnecting, wsOpen, reconnectTimers, itemChain>>

\* the fetch of the i-th chain rejects, answers non-2xx or cannot be read
WeatherChainFailed(i) ==
    /\ alive
    /\ i \in DOMAIN weatherChains
    /\ weatherChains[i].phase = "fetch"
    /\ weatherChains' = ReplaceChain(weatherChains, i, WeatherCatch(weatherChains[i]))
    /\ op' = "ws-weather-failed"
    /\ status' = 0
    /\ outbox' = <<>>
    /\ relayErrors' = {}
    /\ UNCHANGED <<maps, tokenCount, issued, clock, latestWeatherDataJSON,
                   latestWeatherDataObj, latestStockDataJSON, latestStockDataObj,
                   itemInfo, stockAwait, weatherUpstream, weatherFetches, announced,
                   consumed, wsvars>>

\* the timer of the i-th chain fires: pollWeatherAPI(attempt + 1, maxAttempts)
WeatherChainRetry(i) ==
    /\ alive
    /\ i \in DOMAIN weatherChains
    /\ weatherChains[i].phase = "wait"
    /\ weatherChains' =
          ReplaceChain(weatherChains, i,
                       <<[attempt |-> weatherChains[i].attempt + 1, phase |-> "fetch",
                          delay |-> 0]>>)
    /\ op' = "ws-weather-retry"
    /\ status' = 0
    /\ outbox' = <<>>
    /\ relayErrors' = {}
    /\ UNCHANGED <<maps, tokenCount, issued, clock, latestWeatherDataJSON,
                   latestWeatherDataObj, latestStockDataJSON, latestStockDataObj,
                   itemInfo, stockAwait, weatherUpstream, weatherFetches, announced,
                   consumed, wsvars>>

\* app.post('/subscribe') of the WebSocket variant
SubscribeWS(rawEmail, body) ==
    /\ alive
    /\ LET email == Trim(rawEmail)
           items == ItemsOf(body)
       IN IF email = NoEmail \/ Len(items) = 0
          THEN UNCHANGED subscriptions
          ELSE subscriptions' = MapSet(subscriptions, email, SeqToSet(items))
    /\ status' = 302
    /\ op' = "ws-subscribe"
    /\ outbox' = <<>>
    /\ relayErrors' = {}
    /\ UNCHANGED <<pendingVerifications, verifiedEmails, tokenCount, issued, clock, feeds,
                   consumed, wsvars>>

\* app.get('/unsub') of the WebSocket variant
UnsubWS(rawEmail) ==
    /\ alive
    /\ LET email == Trim(rawEmail)
       IN IF email \in Keys(subscriptions)
          THEN /\ subscriptions' = MapDelete(subscriptions, email)
               /\ status' = 302
          ELSE /\ status' = 404
               /\ UNCHANGED subscriptions
    /\ op' = "ws-unsub"
    /\ outbox' = <<>>
    /\ relayErrors' = {}
    /\ UNCHANGED <<pendingVerifications, verifiedEmails, tokenCount, issued, clock, feeds,
                   consumed, wsvars>>

\* app.post('/request-verification') of the WebSocket variant, fails telling whether
\* transporter.sendMail calls back with an error: sendVerificationEmail has stored
\* the pending verification before it hands the mail over, and the handler awaits
\* the promise inside try / catch
RequestVerificationWS(rawEmail, fails) ==
    /\ alive
    /\ LET email == Trim(rawEmail) IN
       IF email = NoEmail \/ ~WellFormedEmail(email) \/ email \in Keys(subscriptions) THEN
           /\ status' = 400
           /\ relayErrors' = {}
           /\ outbox' = <<>>
           /\ UNCHANGED <<pendingVerifications, tokenCount, issued>>
       ELSE
           /\ tokenCount < MaxTokens
           /\ sendVerificationEmail(email)
           /\ status' = IF fails THEN 500 ELSE 200
           /\ relayErrors' = IF fails THEN {email} ELSE {}
           /\ outbox' = <<VerificationMail(email, pendingVerifications'[email].token)>>
    /\ op' = "ws-request-verification"
    /\ UNCHANGED <<verifiedEmails, subscriptions, clock, feeds, consumed, wsvars>>

\* app.get('/verify') of the WebSocket variant: the pending entry is deleted and
\* nothing else is written
VerifyWS(email, token) ==
    /\ alive
    /\ IF ~VerifyAccepts(email, token) THEN
           /\ status' = 400
           /\ UNCHANGED <<pendingVerifications, consumed>>
       ELSE
           /\ pendingVerifications' = MapDelete(pendingVerifications, email)
           /\ consumed' = consumed \cup {<<email, token>>}
           /\ status' = 302
    /\ op' = "ws-verify"
    /\ outbox' = <<>>
    /\ relayErrors' = {}
    /\ UNCHANGED <<verifiedEmails, subscriptions, tokenCount, issued, clock, feeds, wsvars>>

\* a callback that logs the error and lets the process go on
OnStartupVerifyLogsOnly(error) == alive' = alive

\* the callback of the startup transporter.verify: if (error) process.exit(1)
OnStartupVerify(error) == alive' = ~error

\* the startup transporter.verify calls back, with an error or without
StartupVerified(error) ==
    /\ alive
    /\ startupVerify = "pending"
    /\ startupVerify' = IF error THEN "failed" ELSE "ok"
    /\ OnStartupVerify(error)
    /\ op' = "smtp-verify"
    /\ status' = 0
    /\ outbox' = <<>>
    /\ relayErrors' = {}
    /\ UNCHANGED <<maps, tokenCount, issued, clock, feeds, consumed, variant, wsConnecting,
                   wsOpen, reconnectTimers, itemChain>>

\* the hourly setInterval callback of the WebSocket variant
SweepWS ==
    /\ alive
    /\ Sweep

----------------------------------------------------------------------------
(* Specifications *)

\* no weather fetch is in flight; upstream has answered nothing yet
NoFetches ==
    /\ weatherUpstream = nullObj
    /\ weatherFetches = <<>>
    /\ announced = {}
    /\ weatherChains = <<>>

\* the polling variant opens no upstream socket, runs no retry chain and, its
\* process running, has logged no relay error
NoWebSocket ==
    /\ relayErrors = {}
    /\ variant = "polling"
    /\ alive = TRUE
    /\ wsConnecting = 0
    /\ wsOpen = 0
    /\ reconnectTimers = 0
    /\ itemChain = NoChain
    /\ startupVerify = "none"

Init ==
    /\ pendingVerifications = EmptyMap
    /\ verifiedEmails = {}
    /\ subscriptions = EmptyMap
    /\ tokenCount = 0
    /\ issued = <<>>
    /\ now = 0
    /\ lastSweep = 0
    /\ latestWeatherDataJSON = null
    /\ NoFetches
    /\ latestWeatherDataObj = nullObj
    /\ latestStockDataJSON = null
    /\ latestStockDataObj = nullObj
    /\ itemInfo = <<>>
    /\ stockAwait = <<>>
    /\ op = "start"
    /\ outbox = <<>>
    /\ status = 0
    /\ consumed = {}
    /\ NoWebSocket

\* the subscription and verification flow: every request, with clean and with
\* malformed parameters, the expiry sweep, and idle periods of IdleHours
Next ==
    \/ \E e \in RawEmails : RequestVerificationReq(e)
    \/ \E e \in RawEmails, t \in TokenInputs : VerifyReq(e, t)
    \/ \E e \in RawEmails, b \in ItemBodies : SubscribeReq(e, b)
    \/ \E e \in RawEmails : UnsubReq(e)
    \/ Sweep
    \/ Tick(IdleHours)

Spec == Init /\ [][Next]_vars

\* that flow with the question /check-verification answers
NextSignup ==
    \/ Next
    \/ \E e \in RawEmails : CheckVerificationReq(e)

SpecSignup == Init /\ [][NextSignup]_vars

\* verification requests against the clock, hour by hour
NextExpiry ==
    \/ \E e \in Emails : RequestVerificationReq(e)
    \/ \E e \in Emails, t \in 1..MaxTokens : VerifyReq(e, t)
    \/ Sweep
    \/ Tick(1)

SpecExpiry == Init /\ [][NextExpiry]_vars

\* the state the verification flow reaches once every address has requested a
\* token and used it, nobody having subscribed yet
InitVerified ==
    /\ pendingVerifications = EmptyMap
    /\ verifiedEmails = Emails
    /\ subscriptions = EmptyMap
    /\ tokenCount = 2
    /\ issued = <<<<<<"a">>, 1>>, <<<<"b">>, 2>>>>
    /\ now = 0
    /\ lastSweep = 0
    /\ latestWeatherDataJSON = null
    /\ NoFetches
    /\ latestWeatherDataObj = nullObj
    /\ latestStockDataJSON = null
    /\ latestStockDataObj = nullObj
    /\ itemInfo = <<>>
    /\ stockAwait = <<>>
    /\ op = "verify"
    /\ outbox = <<>>
    /\ status = 302
    /\ consumed = {<<<<"a">>, 1>>, <<<<"b">>, 2>>}
    /\ NoWebSocket

\* the weather poller with the requests that fill and empty subscriptions
NextWeather ==
    \/ \E e \in Emails, b \in ItemBodies : SubscribeReq(e, b)
    \/ \E e \in Emails : UnsubReq(e)
    \/ \E d \in WeatherPayloads : PollWeatherStep(d)
    \/ PollWeatherError

SpecWeather == InitVerified /\ [][NextWeather]_vars

\* durations in seconds around the minute boundaries
Durations == {0, 1, 59, 60, 61, 119, 120, 3600}

\* weather payloads with one active event that carries a duration
DurationPayloads ==
    {[weather |-> <<[weather_id |-> w, active |-> TRUE, duration |-> d]>>, rev |-> 0] :
        w \in WeatherIds, d \in Durations}

\* the weather poller fed with events of every such duration, and the requests that
\* fill subscriptions
NextDuration ==
    \/ \E e \in Emails : SubscribeReq(e, [isArray |-> TRUE, val |-> <<"carrot">>])
    \/ \E d \in DurationPayloads : PollWeatherStep(d)

SpecDuration == InitVerified /\ [][NextDuration]_vars

\* that state once a catalog fetch has succeeded
InitStock ==
    /\ pendingVerifications = EmptyMap
    /\ verifiedEmails = Emails
    /\ subscriptions = EmptyMap
    /\ tokenCount = 2
    /\ issued = <<<<<<"a">>, 1>>, <<<<"b">>, 2>>>>
    /\ now = 0
    /\ lastSweep = 0
    /\ latestWeatherDataJSON = null
    /\ NoFetches
    /\ latestWeatherDataObj = nullObj
    /\ latestStockDataJSON = null
    /\ latestStockDataObj = nullObj
    /\ itemInfo = <<ItemData("carrot")>>
    /\ stockAwait = <<>>
    /\ op = "item-info"
    /\ outbox = <<>>
    /\ status = 0
    /\ consumed = {<<<<"a">>, 1>>, <<<<"b">>, 2>>}
    /\ NoWebSocket

\* the stock poller, its catalog loaded, with the requests that fill and empty
\* subscriptions
NextStock ==
    \/ \E e \in Emails, b \in ItemBodies : SubscribeReq(e, b)
    \/ \E e \in Emails : UnsubReq(e)
    \/ \E d \in StockPayloads : PollStockStep(d)
    \/ PollStockError

SpecStock == InitStock /\ [][NextStock]_vars

\* the maps /subscribe can leave: each address without an entry or watching a
\* non-empty set of items
SubscriptionMaps == UNION {[S -> (SUBSET ItemIds) \ {{}}] : S \in SUBSET Emails}

\* any subscriptions and any payload: pollStockAPI has stored the payload data and
\* is suspended on await fetchItemInfo(), the catalog being empty
InitCompose ==
    /\ pendingVerifications = EmptyMap
    /\ verifiedEmails = Emails
    /\ subscriptions \in SubscriptionMaps
    /\ tokenCount = 2
    /\ issued = <<<<<<"a">>, 1>>, <<<<"b">>, 2>>>>
    /\ now = 0
    /\ lastSweep = 0
    /\ latestWeatherDataJSON = null
    /\ NoFetches
    /\ latestWeatherDataObj = nullObj
    /\ \E data \in StockPayloads :
          /\ latestStockDataJSON = StringifyStock(data)
          /\ latestStockDataObj = data
          /\ stockAwait = <<data>>
    /\ itemInfo = <<>>
    /\ op = "stock"
    /\ outbox = <<>>
    /\ status = 0
    /\ consumed = {<<<<"a">>, 1>>, <<<<"b">>, 2>>}
    /\ NoWebSocket

\* the suspended poll goes on: buildStockHtmlEmail runs for every subscriber
NextCompose ==
    \E c \in Catalogs : PollStockResume(1, c)

SpecCompose == InitCompose /\ [][NextCompose]_vars

\* two payloads of each feed, for the runs in which every operation interleaves
FewWeatherPayloads ==
    {[weather |-> <<[weather_id |-> "rain", active |-> a]>>, rev |-> 0] : a \in BOOLEAN}

FewStockPayloads ==
    {[c \in {"seed_stock"} |-> <<[item_id |-> "carrot", quantity |-> q]>>] : q \in {0, 3}}

\* every request, timer and poll of the polling variant
NextAll ==
    \/ \E e \in Emails : RequestVerificationReq(e)
    \/ \E e \in Emails, t \in 1..MaxTokens : VerifyReq(e, t)
    \/ \E e \in Emails : SubscribeReq(e, [isArray |-> TRUE, val |-> <<"carrot">>])
    \/ \E e \in Emails : UnsubReq(e)
    \/ Sweep
    \/ Tick(IdleHours)
    \/ \E d \in FewWeatherPayloads : PollWeatherStep(d)
    \/ PollWeatherError
    \/ \E d \in FewStockPayloads : PollStockStep(d)
    \/ \E i \in 1..MaxAwait, c \in Catalogs : PollStockResume(i, c)
    \/ PollStockError
    \/ \E c \in Catalogs : FetchItemInfo(c)

SpecAll == Init /\ [][NextAll]_vars

\* the WebSocket variant once its module has loaded: connectWebSocket() has created
\* the first socket and fetchItemInfo() is at its first attempt
ModuleLoadedWS ==
    /\ pendingVerifications = EmptyMap
    /\ verifiedEmails = {}
    /\ subscriptions = EmptyMap
    /\ tokenCount = 0
    /\ issued = <<>>
    /\ now = 0
    /\ lastSweep = 0
    /\ latestWeatherDataJSON = null
    /\ NoFetches
    /\ latestWeatherDataObj = nullObj
    /\ latestStockDataJSON = null
    /\ latestStockDataObj = nullObj
    /\ itemInfo = <<>>
    /\ stockAwait = <<>>
    /\ op = "start"
    /\ outbox = <<>>
    /\ status = 0
    /\ consumed = {}
    /\ relayErrors = {}
    /\ variant = "ws"
    /\ alive = TRUE
    /\ wsConnecting = 1
    /\ wsOpen = 0
    /\ reconnectTimers = 0
    /\ itemChain = [attempt |-> 1, phase |-> "fetch", delay |-> 0]

\* that program once its startup transporter.verify has called back without error
InitWS == ModuleLoadedWS /\ startupVerify = "ok"

\* that program with the callback of its startup transporter.verify still to come
InitStartup == ModuleLoadedWS /\ startupVerify = "pending"

\* a few stock payloads: carrot in and out of stock, and carrot after an entry
\* without item_id with rose beside it in a second category
SomeStockPayloads ==
    {[c \in {"seed_stock"} |-> <<[item_id |-> "carrot", quantity |-> 3]>>],
     [c \in {"seed_stock"} |-> <<[item_id |-> "carrot", quantity |-> 0]>>],
     [c \in {"seed_stock", "gear_stock"} |->
         IF c = "seed_stock"
         THEN <<[item_id |-> "", quantity |-> 3], [item_id |-> "carrot", quantity |-> 3]>>
         ELSE <<[item_id |-> "rose", quantity |-> 3]>>]}

\* the weather payload of the runs about notifications: rain, active
SomeWeatherPayloads ==
    {[weather |-> <<[weather_id |-> "rain", active |-> TRUE]>>, rev |-> 0]}

\* the watch lists of the runs about notifications
SomeItemBodies ==
    {[isArray |-> TRUE, val |-> s] : s \in {<<"carrot">>, <<"rose">>, <<"carrot", "rose">>}}

\* the relay fails for mails it was handed: failing names recipients of mails
FailsAmong(failing, mails) == failing \subseteq {mails[i].to : i \in DOMAIN mails}

\* the polls of the polling variant, their awaits and the relay's failures, with the
\* requests that change subscriptions between them
NextNotifyPolling ==
    \/ \E e \in Emails, b \in SomeItemBodies : SubscribeReq(e, b)
    \/ \E e \in Emails : UnsubReq(e)
    \/ \E d \in SomeStockPayloads, f \in SUBSET Emails : PollStockRelayStep(d, f) /\ FailsAmong(f, outbox')
    \/ \E i \in 1..MaxAwait, c \in Catalogs, f \in SUBSET Emails :
          PollStockResumeRelay(i, c, f) /\ FailsAmong(f, outbox')
    \/ PollStockError
    \/ \E c \in Catalogs : FetchItemInfo(c)
    \/ \E d \in SomeWeatherPayloads, f \in SUBSET Emails : PollWeatherRelayStep(d, f) /\ FailsAmong(f, outbox')
    \/ PollWeatherError

\* the upstream connection of the WebSocket variant, its frames, its weather poll,
\* its catalog fetch and the relay's failures, with the requests that change
\* subscriptions between them
NextNotifyWS ==
    \/ \E e \in Emails, b \in SomeItemBodies : SubscribeWS(e, b)
    \/ \E e \in Emails : UnsubWS(e)
    \/ WsOpened
    \/ \E d \in SomeStockPayloads, f \in SUBSET Emails : WsMessage(d, f) /\ FailsAmong(f, outbox')
    \/ WsMessageError
    \/ WsClosed
    \/ WsConnectFailed
    \/ ConnectWebSocket
    \/ \E c \in Catalogs : ItemInfoFetched(c)
    \/ ItemInfoFailed
    \/ ItemInfoRetry
    \/ \E d \in SomeWeatherPayloads, f \in SUBSET Emails : PollWeatherWS(d, f) /\ FailsAmong(f, outbox')

\* either program, from its start
InitNotify == InitVerified \/ InitWS

NextNotify ==
    \/ variant = "polling" /\ NextNotifyPolling
    \/ variant = "ws" /\ NextNotifyWS

SpecNotify == InitNotify /\ [][NextNotify]_vars

\* the WebSocket variant with every way its catalog fetch is started: at load and,
\* no chain being under way, by '/', /refresh-items and /get-items
NextUpstream ==
    \/ NextNotifyWS
    \/ StartItemChain

SpecUpstream == InitWS /\ [][NextUpstream]_vars

\* the timers of a running Node.js process fire: the reconnect timer of
\* ws.on('close') and the retry timer of fetchItemInfo's catch
TimersFire == WF_reconnectTimers(ConnectWebSocket) /\ WF_itemChain(ItemInfoRetry)

SpecUpstreamFair == InitWS /\ [][NextUpstream]_vars /\ TimersFire

\* addresses spelled out character by character: missing, one of the form
\* local@domain.tld, that one padded, one without @ and one without a dot after
\* the @
AddressInputs ==
    {<<>>,
     <<"a", "@", "b", ".", "c">>,
     <<" ", "a", "@", "b", ".", "c">>,
     <<"a", "b">>,
     <<"a", "@", "b">>}

\* the verification and subscription requests of the polling variant on those
\* addresses
NextAddress ==
    \/ \E e \in AddressInputs : RequestVerificationReq(e)
    \/ \E e \in AddressInputs, t \in TokenInputs : VerifyReq(e, t)
    \/ \E e \in AddressInputs, b \in SomeItemBodies : SubscribeReq(e, b)
    \/ \E e \in AddressInputs : UnsubReq(e)

SpecAddress == Init /\ [][NextAddress]_vars

\* the verification and subscription requests of the WebSocket variant on those
\* addresses, with its hourly sweep
NextSignupWS ==
    \/ \E e \in AddressInputs, fails \in BOOLEAN : RequestVerificationWS(e, fails)
    \/ \E e \in AddressInputs, t \in TokenInputs : VerifyWS(e, t)
    \/ \E e \in AddressInputs, b \in SomeItemBodies : SubscribeWS(e, b)
    \/ \E e \in AddressInputs : UnsubWS(e)
    \/ SweepWS
    \/ Tick(IdleHours)

SpecSignupWS == InitWS /\ [][NextSignupWS]_vars

\* the one stock payload and the one address of the runs about timers
OneStockPayload == {[c \in {"seed_stock"} |-> <<[item_id |-> "carrot", quantity |-> 3]>>]}

OneAddress == <<"a", "@", "b", ".", "c">>

\* the WebSocket variant from its module load: the callback of the startup
\* transporter.verify among the requests, frames, polls and timers the loaded
\* module already serves
NextStartup ==
    \/ \E error \in BOOLEAN : StartupVerified(error)
    \/ \E e \in Emails : SubscribeWS(e, [isArray |-> TRUE, val |-> <<"carrot">>])
    \/ \E fails \in BOOLEAN : RequestVerificationWS(OneAddress, fails)
    \/ WsOpened
    \/ \E d \in OneStockPayload, f \in SUBSET Emails : WsMessage(d, f) /\ FailsAmong(f, outbox')
    \/ WsClosed
    \/ WsConnectFailed
    \/ ConnectWebSocket
    \/ \E c \in Catalogs : ItemInfoFetched(c)
    \/ ItemInfoFailed
    \/ ItemInfoRetry
    \/ \E d \in SomeWeatherPayloads, f \in SUBSET Emails :
          PollWeatherWS(d, f) /\ FailsAmong(f, outbox')

SpecStartup == InitStartup /\ [][NextStartup]_vars

\* the weather poll of the WebSocket variant with its retries: ticks of the
\* interval, fetches that fail or resolve, retry timers, the relay's failures, and
\* /subscribe
NextRetryWS ==
    \/ \E e \in Emails : SubscribeWS(e, [isArray |-> TRUE, val |-> <<"carrot">>])
    \/ WeatherTickWS
    \/ \E i \in 1..MaxChains, d \in SomeWeatherPayloads, f \in SUBSET Emails :
          WeatherChainFetched(i, d, f) /\ FailsAmong(f, outbox')
    \/ \E i \in 1..MaxChains : WeatherChainFailed(i)
    \/ \E i \in 1..MaxChains : WeatherChainRetry(i)

SpecRetryWS == InitWS /\ [][NextRetryWS]_vars

\* what the weather endpoint may answer: no event, the rain inactive, the rain
\* active, and the rain active with another field of the payload changed
WeatherFeed ==
    {[weather |-> <<>>, rev |-> 0],
     [weather |-> <<[weather_id |-> "rain", active |-> FALSE]>>, rev |-> 0]}
    \cup {[weather |-> <<[weather_id |-> "rain", active |-> TRUE]>>, rev |-> r] :
             r \in 0..MaxRev}

\* the weather poller with its fetches in flight: ticks that overlap, responses that
\* arrive in any order, the endpoint changing its answer, and /subscribe
NextOverlap ==
    \/ \E e \in Emails : SubscribeReq(e, [isArray |-> TRUE, val |-> <<"carrot">>])
    \/ \E d \in WeatherFeed : WeatherUpstreamChanges(d)
    \/ PollWeatherFetch
    \/ \E i \in 1..MaxFlights : PollWeatherResponse(i)

SpecOverlap == InitVerified /\ [][NextOverlap]_vars

\* every step of the polling variant that hands mail to the relay, the relay
\* answering the verification mail in each of its ways, and the requests that fill
\* and empty the maps
NextMail ==
    \/ \E e \in RawEmails, r \in RelayOutcomes : RequestVerificationRelayReq(e, r)
    \/ \E e \in Emails, t \in 1..MaxTokens : VerifyReq(e, t)
    \/ \E e \in Emails : SubscribeReq(e, [isArray |-> TRUE, val |-> <<"carrot">>])
    \/ \E e \in Emails : UnsubReq(e)
    \/ \E e \in RawEmails : TestEmailReq(e)
    \/ \E d \in OneStockPayload : PollStockRelayStep(d, {})
    \/ \E i \in 1..MaxAwait, c \in Catalogs : PollStockResumeRelay(i, c, {})
    \/ \E d \in SomeWeatherPayloads : PollWeatherRelayStep(d, {})

SpecMail == Init /\ [][NextMail]_vars

\* the timers of the polling variant (the sweep and the two pollers) among the
\* requests that fill the maps, the clock moving by half a validity period or by
\* IdleHours
NextTimersPolling ==
    \/ \E e \in Emails : RequestVerificationReq(e)
    \/ \E e \in Emails, t \in 1..MaxTokens : VerifyReq(e, t)
    \/ \E e \in Emails : SubscribeReq(e, [isArray |-> TRUE, val |-> <<"carrot">>])
    \/ Sweep
    \/ \E d \in {expirationTime \div 2, IdleHours} : Tick(d)
    \/ \E d \in OneStockPayload : PollStockRelayStep(d, {})
    \/ \E i \in 1..MaxAwait, c \in Catalogs : PollStockResumeRelay(i, c, {})
    \/ PollStockError
    \/ \E d \in SomeWeatherPayloads : PollWeatherRelayStep(d, {})
    \/ PollWeatherError

\* the timers of the WebSocket variant (the sweep, the weather poller and the
\* reconnect) and its upstream socket among the requests that fill the maps
NextTimersWS ==
    \/ \E fails \in BOOLEAN : RequestVerificationWS(OneAddress, fails)
    \/ \E t \in 1..MaxTokens : VerifyWS(OneAddress, t)
    \/ SubscribeWS(OneAddress, [isArray |-> TRUE, val |-> <<"carrot">>])
    \/ SweepWS
    \/ \E d \in {expirationTime \div 2, IdleHours} : Tick(d)
    \/ WsOpened
    \/ \E d \in OneStockPayload : WsMessage(d, {})
    \/ WsClosed
    \/ WsConnectFailed
    \/ ConnectWebSocket
    \/ \E d \in SomeWeatherPayloads : PollWeatherWS(d, {})

NextTimers ==
    \/ variant = "polling" /\ NextTimersPolling
    \/ variant = "ws" /\ NextTimersWS

SpecTimers == (Init \/ InitWS) /\ [][NextTimers]_vars

----------------------------------------------------------------------------
(* Properties *)

\* C1: in the polling variant, after any sequence of requests, expiry sweeps and
\* poll ticks, every email that is a key of subscriptions is a key of verifiedEmails.
C1_SubscribedAreVerified == Keys(subscriptions) \subseteq verifiedEmails

\* one email has unsubscribed while another is still subscribed, and the sweep has
\* removed an expired pending entry along the way
C1_Witness ==
    /\ op = "unsub"
    /\ status = 302
    /\ Keys(subscriptions) # {}
    /\ now > expirationTime

\* C2: /verify(email, token) succeeds if and only if pendingVerifications holds an
\* entry for that email whose token is the supplied one; on success the entry is
\* removed and the email joins verifiedEmails; on every failing call
\* pendingVerifications, verifiedEmails and subscriptions are unchanged.
C2_VerifyContract ==
    [][\A e \in RawEmails, t \in TokenInputs :
        VerifyReq(e, t) =>
            LET matches == /\ e \in DOMAIN pendingVerifications
                           /\ pendingVerifications[e].token = t
            IN /\ (status' = 302) <=> matches
               /\ matches =>
                    /\ DOMAIN pendingVerifications' = DOMAIN pendingVerifications \ {e}
                    /\ \A x \in DOMAIN pendingVerifications' :
                          pendingVerifications'[x] = pendingVerifications[x]
                    /\ verifiedEmails' = verifiedEmails \cup {e}
                    /\ subscriptions' = subscriptions
               /\ ~matches =>
                    /\ status' = 400
                    /\ UNCHANGED <<pendingVerifications, verifiedEmails, subscriptions>>
      ]_vars

\* a /verify has just succeeded while another email's entry is still pending
C2_Witness ==
    /\ op = "verify"
    /\ status = 302
    /\ verifiedEmails # {}
    /\ pendingVerifications # EmptyMap

\* C3: once /verify(email, token) has succeeded, every later /verify with the same
\* (email, token) fails, whatever requests happen in between.
C3_TokenSingleUse ==
    [][\A e \in RawEmails, t \in TokenInputs :
        (<<e, t>> \in consumed /\ VerifyReq(e, t)) =>
            /\ status' = 400
            /\ UNCHANGED <<pendingVerifications, verifiedEmails, subscriptions>>
      ]_vars

\* a used token is presented again and refused after a new verification was
\* requested for its email
C3_Witness ==
    /\ op = "verify"
    /\ status = 400
    /\ \E p \in consumed : p[1] \in DOMAIN pendingVerifications

\* C4: a pending verification created at time T is accepted by /verify (with the
\* right token) at every time before T + 24 h and rejected at every time after
\* T + 24 h, whenever the hourly sweep last ran.
C4_ValidFor24Hours ==
    [][\A e \in Emails, t \in 1..MaxTokens :
        (/\ VerifyReq(e, t)
         /\ e \in DOMAIN pendingVerifications
         /\ pendingVerifications[e].token = t) =>
            LET age == now - pendingVerifications[e].timestamp IN
            /\ age < expirationTime => status' = 302
            /\ age > expirationTime => status' = 400
      ]_vars

\* C5: /request-verification(email) is rejected and leaves pendingVerifications
\* unchanged when the email is a key of subscriptions; otherwise it overwrites the
\* email's pending entry with a token never issued before and the current time, the
\* other entries staying as they are, so that the email has one live token and the
\* token of an earlier request for it no longer verifies.
C5_RequestVerificationContract ==
    [][\A raw \in RawEmails :
        (RequestVerificationReq(raw) /\ Trim(raw) # NoEmail) =>
            LET e == Trim(raw) IN
            IF e \in DOMAIN subscriptions
            THEN /\ status' = 400
                 /\ pendingVerifications' = pendingVerifications
            ELSE /\ status' = 200
                 /\ DOMAIN pendingVerifications' = DOMAIN pendingVerifications \cup {e}
                 /\ pendingVerifications'[e].timestamp = now
                 /\ \A x \in DOMAIN pendingVerifications :
                       /\ pendingVerifications'[e].token # pendingVerifications[x].token
                       /\ x # e => pendingVerifications'[x] = pendingVerifications[x]
                 /\ \A p \in consumed : pendingVerifications'[e].token # p[2]
      ]_vars

\* a second request for the same email has replaced its first token
C5_Witness ==
    /\ op = "request-verification"
    /\ status = 200
    /\ now = 0
    /\ consumed = {}
    /\ tokenCount = 2
    /\ \E e \in Emails :
          /\ DOMAIN pendingVerifications = {e}
          /\ pendingVerifications[e].token = 2

\* C6: after a successful /subscribe(E, items) the watch set of E is exactly the set
\* of the items of that request, whatever E watched before, and the watch sets of
\* all other emails are unchanged.
C6_SubscribeReplaces ==
    [][\A raw \in RawEmails, b \in ItemBodies :
        (SubscribeReq(raw, b) /\ status' = 200) =>
            LET e == Trim(raw) IN
            /\ DOMAIN subscriptions' = DOMAIN subscriptions \cup {e}
            /\ subscriptions'[e] = {b.val[i] : i \in DOMAIN b.val}
            /\ \A x \in DOMAIN subscriptions : x # e => subscriptions'[x] = subscriptions[x]
      ]_vars

\* a /subscribe has just succeeded and the two subscribers watch different items
C6_Witness ==
    /\ op = "subscribe"
    /\ status = 200
    /\ DOMAIN subscriptions = Emails
    /\ subscriptions[<<"a">>] = {"rose"}
    /\ subscriptions[<<"b">>] = {"carrot", "rose"}

\* C7: /unsub on an email that has no subscription reports not-found and leaves
\* subscriptions, verifiedEmails and pendingVerifications unchanged: an email that
\* is verified but not subscribed stays verified.
C7_UnsubNotFound ==
    [][\A raw \in RawEmails :
        (UnsubReq(raw) /\ Trim(raw) # NoEmail /\ Trim(raw) \notin DOMAIN subscriptions) =>
            /\ status' = 200
            /\ UNCHANGED <<subscriptions, verifiedEmails, pendingVerifications>>
      ]_vars

\* /unsub has just answered not-found while both emails are verified and neither is
\* subscribed
C7_Witness ==
    /\ op = "unsub"
    /\ status = 200
    /\ verifiedEmails = Emails
    /\ subscriptions = EmptyMap

\* the weather_id of the first active event of a payload, "none" without one
FirstActiveId(data) ==
    LET active == {i \in DOMAIN data.weather : data.weather[i].active} IN
    IF active = {} THEN "none"
    ELSE data.weather[CHOOSE i \in active : \A j \in active : i <= j].weather_id

\* the number of mails of a fan-out addressed to an email
MailsTo(mails, e) == Cardinality({i \in DOMAIN mails : mails[i].to = e})

\* Sanity: the payload a weather poll has processed is the one it leaves stored, so
\* the properties below read the processed payload from latestWeatherDataObj'.
ProcessedWeatherIsStored ==
    [][\A d \in WeatherPayloads : PollWeatherStep(d) => latestWeatherDataObj' = d]_vars

\* C8: weather polling sends no notification when the first active event of the
\* newly processed snapshot has the weather_id of the first active event of the
\* stored one, and none when the new snapshot has no active event, even if the
\* serialized payload differs.
C8_NoRepeatedWeatherMail ==
    [][LET d == latestWeatherDataObj' IN
        (/\ op' = "weather"
         /\ PollWeatherStep(d)
         /\ \/ FirstActiveId(d) = "none"
            \/ /\ latestWeatherDataObj # nullObj
               /\ FirstActiveId(d) = FirstActiveId(latestWeatherDataObj))
        => outbox' = <<>>
      ]_vars

\* a weather poll has just ended without mail although there are subscribers and
\* the stored snapshot, which has other fields than the first one, has an active
\* event
C8_Witness ==
    /\ op = "weather"
    /\ outbox = <<>>
    /\ subscriptions # EmptyMap
    /\ latestWeatherDataObj # nullObj
    /\ latestWeatherDataObj.rev = 1
    /\ FirstActiveId(latestWeatherDataObj) # "none"

\* C9: when the first active event of a processed snapshot has a weather_id other
\* than that of the stored snapshot's first active event, or there was none before,
\* exactly one weather email is handed to the mailer for each key of subscriptions
\* at that moment, whatever its watch set, and none for anyone else.
C9_WeatherBroadcast ==
    [][LET d == latestWeatherDataObj' IN
        (/\ op' = "weather"
         /\ PollWeatherStep(d)
         /\ FirstActiveId(d) # "none"
         /\ \/ latestWeatherDataObj = nullObj
            \/ FirstActiveId(latestWeatherDataObj) # FirstActiveId(d))
        => /\ \A e \in Emails :
                MailsTo(outbox', e) = IF e \in DOMAIN subscriptions THEN 1 ELSE 0
           /\ \A i \in DOMAIN outbox' :
                /\ outbox'[i].to \in DOMAIN subscriptions
                /\ outbox'[i].kind = "weather"
                /\ outbox'[i].body.weather_id = FirstActiveId(d)
      ]_vars

\* a weather poll has just mailed two subscribers whose watch sets differ
C9_Witness ==
    /\ op = "weather"
    /\ Len(outbox) = 2
    /\ DOMAIN subscriptions = Emails
    /\ subscriptions[<<"a">>] # subscriptions[<<"b">>]

\* the positions of a payload, within the categories cats, that hold the item x
Positions(data, cats, x) ==
    UNION {{<<c, i>> : i \in {j \in DOMAIN data[c] : data[c][j] = x}} :
             c \in {cats[k] : k \in DOMAIN cats} \cap DOMAIN data}

\* how often a composed message lists the item x
Listed(html, x) ==
    IF html = nullObj THEN 0
    ELSE Cardinality({i \in DOMAIN html.rows :
                         /\ html.rows[i].item_id = x.item_id
                         /\ html.rows[i].quantity = x.quantity})

\* what C10 asks of the message html composed for email e from data
ComposesWatchedInStock(html, data, cats, e) ==
    LET wanted(x) == /\ e \in DOMAIN subscriptions
                     /\ x.item_id \in subscriptions[e]
                     /\ x.quantity > 0
        due(x) == IF wanted(x) THEN Cardinality(Positions(data, cats, x)) ELSE 0
    IN /\ \A x \in StockItems : Listed(html, x) = due(x)
       /\ html # nullObj =>
             \A i \in DOMAIN html.rows :
                [item_id |-> html.rows[i].item_id, quantity |-> html.rows[i].quantity]
                    \in StockItems
       /\ (html = nullObj) <=> (\A x \in StockItems : due(x) = 0)

ShowsWatched(data, e) ==
    /\ e \in DOMAIN subscriptions
    /\ \E c \in DOMAIN data : \E i \in DOMAIN data[c] :
          /\ data[c][i].item_id \in subscriptions[e]
          /\ data[c][i].quantity > 0

\* how many stock mails of mails are addressed to e
StockMailsTo(mails, e) ==
    Cardinality({i \in DOMAIN mails : mails[i].to = e /\ mails[i].kind = "stock"})

\* C11: a processed stock snapshot that differs from the last-seen one hands the
\* mailer exactly one stock mail for every subscriber to whom it shows a watched item
\* with quantity > 0 (in the polling variant when the poll reaches its fan-out, at
\* once with a catalog and after the awaited fetch without one; in the WebSocket
\* variant in the message handler), and a snapshot whose serialization equals the
\* last-seen one hands over no mail.
C11_OneMailPerChange ==
    [][LET f == relayErrors' IN
       /\ \A d \in SomeStockPayloads :
             (op' = "stock" /\ PollStockRelayStep(d, f)) =>
                 IF StringifyStock(d) = latestStockDataJSON THEN outbox' = <<>>
                 ELSE IF itemInfo = <<>> THEN outbox' = <<>> /\ stockAwait' # <<>>
                 ELSE \A e \in Emails : ShowsWatched(d, e) => StockMailsTo(outbox', e) = 1
       /\ \A i \in DOMAIN stockAwait :
             (op' = "stock-resume" /\ PollStockResumeRelay(i, itemInfo', f)) =>
                 \A e \in Emails :
                     ShowsWatched(stockAwait[i], e) => StockMailsTo(outbox', e) = 1
       /\ \A d \in SomeStockPayloads :
             (op' = "ws-message" /\ WsMessage(d, f)) =>
                 IF StringifyStock(d) = latestStockDataJSON THEN outbox' = <<>>
                 ELSE \A e \in Emails : ShowsWatched(d, e) => StockMailsTo(outbox', e) = 1
      ]_vars

\* a poll of the polling variant has just mailed the verified subscriber a, who
\* watches carrot, the one mail of a snapshot that shows carrot in stock
C11_Witness ==
    /\ variant = "polling"
    /\ op = "stock"
    /\ <<"a">> \in verifiedEmails
    /\ <<"a">> \in DOMAIN subscriptions
    /\ "carrot" \in subscriptions[<<"a">>]
    /\ latestStockDataObj # nullObj
    /\ ShowsWatched(latestStockDataObj, <<"a">>)
    /\ StockMailsTo(outbox, <<"a">>) = 1

\* the snapshot data shows the item id with a quantity above 0
InStockIn(data, id) ==
    /\ data # nullObj
    /\ \E c \in DOMAIN data : \E i \in DOMAIN data[c] :
          data[c][i].item_id = id /\ data[c][i].quantity > 0

\* C12: on a snapshot change, pollStockAPI mails a subscriber only if at least one
\* item of the watch set has quantity > 0 in the new snapshot and was not in stock
\* (absent or quantity 0) in the previously seen snapshot.
C12_OnlyNewlyInStock ==
    [][(variant = "polling" /\ op' = "stock"
           /\ latestStockDataJSON' # latestStockDataJSON) =>
          \A i \in DOMAIN outbox' :
              \E id \in subscriptions[outbox'[i].to] :
                  /\ InStockIn(latestStockDataObj', id)
                  /\ ~InStockIn(latestStockDataObj, id)
      ]_vars

\* C12 (amended): on a snapshot change, the fan-out of pollStockAPI mails a
\* subscriber exactly when at least one item of the watch set has quantity > 0 in
\* the new snapshot, whether or not it was in stock in the previously seen one.
C12_MailedForInStock ==
    [][LET f == relayErrors' IN
       /\ \A d \in SomeStockPayloads :
             (variant = "polling" /\ op' = "stock" /\ itemInfo # <<>>
                 /\ PollStockRelayStep(d, f) /\ latestStockDataJSON' # latestStockDataJSON) =>
                \A e \in Emails :
                    (\E i \in DOMAIN outbox' : outbox'[i].to = e)
                        <=> (e \in DOMAIN subscriptions
                               /\ \E id \in subscriptions[e] : InStockIn(d, id))
       /\ \A n \in DOMAIN stockAwait :
             (op' = "stock-resume" /\ PollStockResumeRelay(n, itemInfo', f)) =>
                \A e \in Emails :
                    (\E i \in DOMAIN outbox' : outbox'[i].to = e)
                        <=> (e \in DOMAIN subscriptions
                               /\ \E id \in subscriptions[e] : InStockIn(stockAwait[n], id))
      ]_vars

\* b, who watches carrot only, has just been mailed by a poll whose snapshot shows
\* carrot in stock beside an entry of another category
C12_Witness ==
    /\ variant = "polling"
    /\ op = "stock"
    /\ <<"b">> \in DOMAIN subscriptions
    /\ subscriptions[<<"b">>] = {"carrot"}
    /\ latestStockDataObj # nullObj
    /\ DOMAIN latestStockDataObj = {"seed_stock", "gear_stock"}
    /\ \E i \in DOMAIN outbox : outbox[i].to = <<"b">>

\* C13: in the WebSocket variant no mail-relay failure of a stock or weather fan-out
\* ends the process: after a step in which sendEmail promises were rejected, the
\* process is still running.
C13_RelayErrorsAreCaught ==
    [][(variant = "ws" /\ op' \in {"ws-message", "ws-weather"} /\ relayErrors' # {})
          => alive'
      ]_vars

\* how many mails of mails are addressed to e
MailCount(mails, e) == Cardinality({i \in DOMAIN mails : mails[i].to = e})

\* C14: in the polling variant a relay failure for some recipients of a fan-out does
\* not stop it: every subscriber eligible in that fan-out (every subscriber for a
\* weather announcement, those the snapshot shows a watched in-stock item to for a
\* stock one), failed or not, has its mail handed to the mailer exactly once; the
\* failures are logged for recipients of that fan-out only, and the steps that follow
\* hand over nothing for them: no handler or timer other than a fan-out sends mail.
C14_FailureDoesNotStopFanOut ==
    [][variant = "polling" =>
         /\ (op' = "weather" /\ relayErrors' # {}) =>
               /\ \A e \in DOMAIN subscriptions : MailCount(outbox', e) = 1
               /\ relayErrors' \subseteq DOMAIN subscriptions
         /\ (op' = "stock" /\ relayErrors' # {}) =>
               /\ \A e \in Emails :
                     ShowsWatched(latestStockDataObj', e) => MailCount(outbox', e) = 1
               /\ \A e \in relayErrors' : ShowsWatched(latestStockDataObj', e)
         /\ \A n \in DOMAIN stockAwait :
               (op' = "stock-resume" /\ relayErrors' # {}
                   /\ PollStockResumeRelay(n, itemInfo', relayErrors')) =>
                  /\ \A e \in Emails :
                        ShowsWatched(stockAwait[n], e) => MailCount(outbox', e) = 1
                  /\ \A e \in relayErrors' : ShowsWatched(stockAwait[n], e)
         /\ (relayErrors # {} /\ op' \notin {"weather", "stock", "stock-resume"}) =>
               outbox' = <<>>
      ]_vars

\* a weather announcement has just been handed over for both subscribers although
\* the relay failed for one of them
C14_Witness ==
    /\ variant = "polling"
    /\ op = "weather"
    /\ DOMAIN subscriptions = Emails
    /\ Cardinality(relayErrors) = 1
    /\ \A e \in Emails : MailCount(outbox, e) = 1

\* C15: in the polling variant, whenever pollStockAPI performs its fan-out, the
\* snapshot its mails are built from is the latest stored snapshot at that moment,
\* also when the poll was suspended on the awaited catalog fetch meanwhile.
C15_FanOutFromLatest ==
    [][/\ (variant = "polling" /\ op' = "stock" /\ outbox' # <<>>) =>
             \A i \in DOMAIN outbox' :
                 \A r \in DOMAIN outbox'[i].body.rows :
                     InStockIn(latestStockDataObj', outbox'[i].body.rows[r].item_id)
       /\ \A n \in DOMAIN stockAwait :
             (op' = "stock-resume" /\ outbox' # <<>>
                 /\ PollStockResumeRelay(n, itemInfo', relayErrors')) =>
                 stockAwait[n] = latestStockDataObj'
      ]_vars

\* C16: every stock or weather mail a poll of the polling variant hands to the
\* mailer is addressed to a key subscriptions has at that instant, and a stock mail
\* lists items of the watch set that key has at that instant and no others, whatever
\* /subscribe and /unsub did while the poll was suspended.
C16_MailsFollowCurrentSubscriptions ==
    [][(variant = "polling" /\ op' \in {"weather", "stock", "stock-resume"}) =>
          \A i \in DOMAIN outbox' :
              /\ outbox'[i].to \in DOMAIN subscriptions'
              /\ outbox'[i].kind = "stock" =>
                    /\ outbox'[i].body.unsub = outbox'[i].to
                    /\ \A r \in DOMAIN outbox'[i].body.rows :
                          outbox'[i].body.rows[r].item_id
                              \in subscriptions'[outbox'[i].to]
      ]_vars

\* a resumed poll has just mailed a, whose watch set is rose alone, a message that
\* lists rose and not carrot, which the snapshot shows in stock as well
C16_Witness ==
    /\ variant = "polling"
    /\ op = "stock-resume"
    /\ <<"a">> \in DOMAIN subscriptions
    /\ subscriptions[<<"a">>] = {"rose"}
    /\ \E i \in DOMAIN outbox :
          /\ outbox[i].to = <<"a">>
          /\ Len(outbox[i].body.rows) = 1
          /\ outbox[i].body.rows[1].item_id = "rose"

\* C17: in the polling variant a stock or weather poll whose fetch fails hands over
\* no mail and leaves the last-seen snapshots and the subscription and verification
\* maps as they were, the process goes on, and the poll that follows it still takes
\* a changed payload for a change and stores it.
C17_FailedPollChangesNothing ==
    [][variant = "polling" =>
         /\ op' \in {"stock-error", "weather-error"} =>
               /\ outbox' = <<>>
               /\ alive'
               /\ UNCHANGED <<pendingVerifications, verifiedEmails, subscriptions>>
               /\ UNCHANGED <<latestStockDataJSON, latestStockDataObj,
                              latestWeatherDataJSON, latestWeatherDataObj>>
         /\ (op = "stock-error" /\ Len(stockAwait) < MaxAwait) =>
               \A d \in SomeStockPayloads : ENABLED PollStockRelayStep(d, {})
         /\ op = "weather-error" =>
               \A d \in SomeWeatherPayloads : ENABLED PollWeatherRelayStep(d, {})
         /\ \A d \in SomeStockPayloads :
               (op = "stock-error" /\ op' = "stock" /\ PollStockRelayStep(d, relayErrors')
                   /\ StringifyStock(d) # latestStockDataJSON) =>
                  latestStockDataObj' = d
         /\ \A d \in SomeWeatherPayloads :
               (op = "weather-error" /\ op' = "weather"
                   /\ PollWeatherRelayStep(d, relayErrors')
                   /\ StringifyWeather(d) # latestWeatherDataJSON) =>
                  latestWeatherDataObj' = d
      ]_vars

\* a stock poll has just failed while a snapshot is stored and a subscriber waits
C17_Witness ==
    /\ variant = "polling"
    /\ op = "stock-error"
    /\ latestStockDataObj # nullObj
    /\ subscriptions # EmptyMap
    /\ outbox = <<>>


\* the safety half of C18: a close of the upstream connection, a failed connection
\* attempt included, leaves exactly one more reconnect timer and the last-seen stock
\* snapshot; at any time the program has one socket or one reconnect timer, never
\* two and never none; a connection that opens processes frames against the
\* snapshot it had before the close
C18_CloseSchedulesOneReconnect ==
    [][/\ op' \in {"ws-close", "ws-connect-failed"} =>
            /\ reconnectTimers' = reconnectTimers + 1
            /\ wsConnecting' + wsOpen' = wsConnecting + wsOpen - 1
            /\ UNCHANGED <<latestStockDataJSON, latestStockDataObj>>
       /\ op' \in {"ws-connect", "ws-open"} =>
            UNCHANGED <<latestStockDataJSON, latestStockDataObj>>
       /\ op' = "ws-connect" =>
            /\ reconnectTimers' = reconnectTimers - 1
            /\ wsConnecting' = wsConnecting + 1
       /\ wsConnecting' + wsOpen' + reconnectTimers' = 1
      ]_vars

\* C18: in the WebSocket variant every close of the upstream connection (a failed
\* connection attempt included) schedules exactly one reconnect, the last-seen stock
\* snapshot is retained, and a new connection attempt eventually follows every
\* disconnect
C18_ReconnectFollowsClose ==
    /\ C18_CloseSchedulesOneReconnect
    /\ (reconnectTimers > 0) ~> (wsConnecting > 0)


\* the seconds the claim gives for the wait after the k-th failed attempt
BackoffSeconds == <<2, 4, 8, 16>>

\* C19: in the WebSocket variant a chain of fetchItemInfo makes at most 5 attempts;
\* the k-th failed attempt, k < 5, leaves one retry timer of 2^k seconds (2, 4, 8,
\* 16 s) and the catalog as it was; a success ends the chain with no timer left; the
\* 5th failure empties itemInfo and ends the chain with no timer left; only a timer
\* left by a failure starts a further attempt, the next one of the chain
C19_BoundedRetries ==
    [][variant = "ws" =>
         /\ itemChain'.attempt \in 0..maxAttempts
         /\ maxAttempts = 5
         /\ (op' = "ws-item-info-failed" /\ itemChain.attempt < 5) =>
               /\ itemChain' = [attempt |-> itemChain.attempt, phase |-> "wait",
                                delay |-> BackoffSeconds[itemChain.attempt]]
               /\ UNCHANGED itemInfo
         /\ (op' = "ws-item-info-failed" /\ itemChain.attempt >= 5) =>
               /\ itemInfo' = <<>>
               /\ itemChain' = NoChain
         /\ op' = "ws-item-info" => itemChain' = NoChain
         /\ op' = "ws-item-retry" =>
               /\ itemChain.phase = "wait"
               /\ itemChain' = [attempt |-> itemChain.attempt + 1, phase |-> "fetch",
                                delay |-> 0]
         /\ itemChain = NoChain =>
               /\ ~ENABLED ItemInfoRetry
               /\ ~ENABLED ItemInfoFailed
               /\ itemChain' # NoChain => op' = "ws-fetch-items"
      ]_vars

\* the 5th attempt of a chain has just failed: the catalog is empty and no timer
\* is left
C19_Witness ==
    /\ variant = "ws"
    /\ op = "ws-item-info-failed"
    /\ itemChain = NoChain
    /\ itemInfo = <<>>


\* every row of the stock mails in mails carries the icon the catalog info gives
\* for its item or, the catalog not listing the item, the URL built on host from
\* the item's id
IconsFromCatalogOrId(mails, info, host) ==
    \A i \in DOMAIN mails : \A r \in DOMAIN mails[i].body.rows :
        LET row == mails[i].body.rows[r] IN
        IF \E k \in DOMAIN info : info[k].item_id = row.item_id
        THEN \E k \in DOMAIN info : info[k].item_id = row.item_id /\ row.icon = info[k].icon
        ELSE row.icon = <<host, row.item_id>>

\* C20: a detected stock change reaches its fan-out whatever the catalog is. In the
\* WebSocket variant the message handler hands over the mails of the matching
\* subscribers in the step that detects the change, starting and awaiting no catalog
\* fetch. In the polling variant a poll that finds the catalog empty awaits the
\* fetch, the await can settle with a catalog as well as with none, and when it
\* settles the poll hands over the mails of the matching subscribers. Either way an
\* item the catalog does not list gets the icon URL built from its item_id.
C20_CatalogNeverBlocksFanOut ==
    /\ [](\A i \in DOMAIN stockAwait : \A c \in Catalogs :
             ENABLED PollStockResumeRelay(i, c, {}))
    /\ [][LET f == relayErrors' IN
          /\ \A d \in SomeStockPayloads :
                (op' = "ws-message" /\ WsMessage(d, f)
                    /\ StringifyStock(d) # latestStockDataJSON) =>
                    /\ UNCHANGED <<itemInfo, itemChain>>
                    /\ \A e \in Emails : ShowsWatched(d, e) => StockMailsTo(outbox', e) = 1
                    /\ IconsFromCatalogOrId(outbox', itemInfo,
                                            "api.joshlei.com/v2/growagarden/image")
          /\ \A d \in SomeStockPayloads :
                (op' = "stock" /\ PollStockRelayStep(d, f) /\ itemInfo = <<>>
                    /\ StringifyStock(d) # latestStockDataJSON) =>
                    stockAwait' = Append(stockAwait, d)
          /\ \A i \in DOMAIN stockAwait :
                (op' = "stock-resume" /\ PollStockResumeRelay(i, itemInfo', f)) =>
                    /\ \A e \in Emails :
                          ShowsWatched(stockAwait[i], e) => StockMailsTo(outbox', e) = 1
                    /\ IconsFromCatalogOrId(outbox', itemInfo', "image.joshlei.com")
         ]_vars

\* the catalog fetch a poll awaited has failed, itemInfo is empty, and the poll has
\* handed over a stock mail whose first row carries the icon URL built from the
\* item's id
C20_Witness ==
    /\ variant = "polling"
    /\ op = "stock-resume"
    /\ itemInfo = <<>>
    /\ outbox # <<>>
    /\ outbox[1].kind = "stock"
    /\ outbox[1].body.rows[1].icon = <<"image.joshlei.com", outbox[1].body.rows[1].item_id>>


\* C21: the change detector reports a payload as changed exactly when its
\* serialization differs from the stored one, and therefore always when nothing is
\* stored yet (null): a poll or frame whose serialization equals the stored one
\* stores nothing, awaits nothing and mails nobody, and every other one is stored
\* as the last-seen payload
C21_ChangedIffSerializationDiffers ==
    [][LET f == relayErrors' IN
       /\ \A d \in SomeStockPayloads :
             (op' = "stock" /\ PollStockRelayStep(d, f)) =>
                 LET newJSON == StringifyStock(d) IN
                 /\ hasDataChanged(latestStockDataJSON, newJSON)
                       <=> ~(latestStockDataJSON = newJSON)
                 /\ latestStockDataJSON = null => hasDataChanged(latestStockDataJSON, newJSON)
                 /\ IF latestStockDataJSON = newJSON
                    THEN /\ UNCHANGED <<latestStockDataJSON, latestStockDataObj, stockAwait>>
                         /\ outbox' = <<>>
                    ELSE /\ latestStockDataJSON' = newJSON
                         /\ latestStockDataObj' = d
                         /\ itemInfo = <<>> => stockAwait' = Append(stockAwait, d)
       /\ \A d \in SomeWeatherPayloads :
             (op' = "weather" /\ PollWeatherRelayStep(d, f)) =>
                 LET newJSON == StringifyWeather(d) IN
                 /\ hasDataChanged(latestWeatherDataJSON, newJSON)
                       <=> ~(latestWeatherDataJSON = newJSON)
                 /\ IF latestWeatherDataJSON = newJSON
                    THEN /\ UNCHANGED <<latestWeatherDataJSON, latestWeatherDataObj>>
                         /\ outbox' = <<>>
                    ELSE /\ latestWeatherDataJSON' = newJSON
                         /\ latestWeatherDataObj' = d
       /\ \A d \in SomeStockPayloads :
             (op' = "ws-message" /\ WsMessage(d, f)) =>
                 LET newJSON == StringifyStock(d) IN
                 IF latestStockDataJSON = newJSON
                 THEN /\ UNCHANGED <<latestStockDataJSON, latestStockDataObj>>
                      /\ outbox' = <<>>
                 ELSE /\ latestStockDataJSON' = newJSON
                      /\ latestStockDataObj' = FilterItems(d)
      ]_vars

\* the first stock payload of a run of the polling variant, polled with nothing
\* stored before it, has been stored and, the catalog being empty, awaits its fetch
C21_Witness ==
    /\ variant = "polling"
    /\ op = "stock"
    /\ latestStockDataJSON # null
    /\ Len(stockAwait) = 1
    /\ StringifyStock(stockAwait[1]) = latestStockDataJSON


\* C22: in the polling variant POST /request-verification answers 400 and creates
\* no pending verification whenever the email is missing, is not of the form
\* local@domain.tld, or already has a subscription
C22_RejectsBadRequests ==
    [][\A r \in AddressInputs :
          (op' = "request-verification" /\ RequestVerificationReq(r)) =>
              LET email == Trim(r) IN
              (email = NoEmail \/ ~WellFormedEmail(email) \/ email \in Keys(subscriptions)) =>
                  /\ status' = 400
                  /\ UNCHANGED pendingVerifications
      ]_vars


\* C23: in the polling variant /subscribe answers 4xx and leaves subscriptions,
\* verifiedEmails and pendingVerifications as they were whenever the email is
\* missing, the item list is empty or the email is not verified, and in every other
\* case it succeeds and the email is subscribed
C23_SubscribeRejections ==
    [][\A raw \in RawEmails, b \in ItemBodies :
          (op' = "subscribe" /\ SubscribeReq(raw, b)) =>
              LET email == Trim(raw)
                  items == ItemsOf(b)
              IN IF email = NoEmail \/ Len(items) = 0 \/ email \notin verifiedEmails
                 THEN /\ status' \in 400..499
                      /\ UNCHANGED <<subscriptions, verifiedEmails, pendingVerifications>>
                 ELSE /\ status' = 200
                      /\ email \in Keys(subscriptions')
                      /\ UNCHANGED <<verifiedEmails, pendingVerifications>>
      ]_vars

\* a /subscribe has just been rejected although every address is verified and one
\* is subscribed: its email was missing or its item list empty
C23_Witness ==
    /\ op = "subscribe"
    /\ status = 400
    /\ verifiedEmails = Emails
    /\ subscriptions # EmptyMap


\* C24: in the WebSocket variant an email is a key of subscriptions only after a
\* /verify with the correct token has succeeded for it
C24_SubscribersHaveVerified ==
    variant = "ws" =>
        \A e \in Keys(subscriptions) : \E p \in consumed : p[1] = e


\* C25: in the polling variant a successful /unsub leaves the email in neither
\* subscriptions nor verifiedEmails, so that /check-verification answers
\* verified: false for it; while an email is not verified every /subscribe for it
\* is rejected and changes nothing; and an email that is not verified becomes
\* verified by nothing but a /verify that succeeds for it
C25_UnsubReturnsToUnknown ==
    [][/\ \A raw \in RawEmails :
             (op' = "unsub" /\ status' = 302 /\ UnsubReq(raw)) =>
                 /\ Trim(raw) \notin Keys(subscriptions')
                 /\ Trim(raw) \notin verifiedEmails'
                 /\ ~(CheckVerification(raw).verified)'
                 /\ (CheckVerification(raw).status)' = 200
       /\ \A raw \in RawEmails, b \in ItemBodies :
             (op' = "subscribe" /\ SubscribeReq(raw, b) /\ Trim(raw) \notin verifiedEmails) =>
                 /\ status' = 400
                 /\ UNCHANGED <<subscriptions, verifiedEmails>>
       /\ \A raw \in RawEmails :
             (op' = "check-verification" /\ CheckVerificationReq(raw)
                 /\ Trim(raw) \notin verifiedEmails) =>
                 /\ ~CheckVerification(raw).verified
                 /\ UNCHANGED <<subscriptions, verifiedEmails>>
       /\ \A e \in Emails :
             (e \notin verifiedEmails /\ e \in verifiedEmails') =>
                 /\ op' = "verify"
                 /\ status' = 302
                 /\ \E t \in TokenInputs : VerifyReq(e, t) /\ VerifyAccepts(e, t)
      ]_vars

\* a subscriber who had verified has just unsubscribed and nobody is verified or
\* subscribed any more
C25_Witness ==
    /\ op = "unsub"
    /\ status = 302
    /\ consumed # {}
    /\ verifiedEmails = {}
    /\ subscriptions = EmptyMap


\* the steps no request causes: the sweep, the pollers with their awaited fetches,
\* the upstream socket's events and its reconnect timer, and the passing of time
TimerDriven ==
    {"sweep", "stock", "stock-resume", "stock-error", "weather", "weather-error",
     "ws-open", "ws-message", "ws-close", "ws-connect-failed", "ws-connect",
     "ws-weather", "idle"}

\* C26: each sweep removes exactly the pending verifications older than 24 hours
\* and keeps every other one as it was, no other timer-driven step changes the
\* pending verifications, and no timer-driven step, the sweep included, changes
\* verifiedEmails or subscriptions
C26_OnlyTheSweepExpires ==
    [][/\ op' = "sweep" =>
            /\ Keys(pendingVerifications') =
                  {e \in Keys(pendingVerifications) :
                      now - pendingVerifications[e].timestamp <= 24}
            /\ \A e \in Keys(pendingVerifications') :
                  pendingVerifications'[e] = pendingVerifications[e]
       /\ op' \in TimerDriven => UNCHANGED <<verifiedEmails, subscriptions>>
       /\ op' \in TimerDriven \ {"sweep"} => UNCHANGED pendingVerifications
      ]_vars

\* a sweep of the polling variant at hour 25 has just removed the verification
\* requested at hour 0 and kept the one requested at hour 12
C26_Witness ==
    /\ variant = "polling"
    /\ op = "sweep"
    /\ now = 25
    /\ tokenCount = 2
    /\ consumed = {}
    /\ Keys(pendingVerifications) = {<<"b">>}
    /\ pendingVerifications[<<"b">>] = [token |-> 2, timestamp |-> 12]


\* C27: in the WebSocket variant a failed startup transporter.verify ends the
\* process, and before the outcome of that verification is known no mail is handed
\* to the relay and no timer, connection or HTTP request is processed
C27_NothingBeforeOutcome ==
    /\ startupVerify = "failed" => ~alive
    /\ startupVerify = "pending" => (op = "start" /\ outbox = <<>>)

\* C27 as the code has it: a failed startup transporter.verify ends the process in
\* the step its callback runs, that step writes nothing else, and once it has
\* failed nothing is processed any more
C27_FailedVerifyExits ==
    /\ [](startupVerify = "failed" => (~alive /\ ~ENABLED NextStartup))
    /\ [][(op' = "smtp-verify" /\ startupVerify = "pending") =>
             /\ alive' = (startupVerify' = "ok")
             /\ startupVerify' \in {"ok", "failed"}
             /\ UNCHANGED <<maps, tokenCount, issued, clock, feeds, consumed, wsConnecting,
                            wsOpen, reconnectTimers, itemChain>>
         ]_vars

\* the startup verification has failed and the process has exited after it had
\* taken a subscription and processed a stock frame
C27_Witness ==
    /\ startupVerify = "failed"
    /\ ~alive
    /\ subscriptions # EmptyMap
    /\ latestStockDataObj # nullObj


\* C28: in the polling variant no reachable state has the same email both as a key
\* of subscriptions and as a key of pendingVerifications
C28_NeverSubscribedAndPending ==
    variant = "polling" => Keys(subscriptions) \cap Keys(pendingVerifications) = {}

\* C28 as the code has it: a pending verification is created or renewed only by a
\* /request-verification for an email that is not subscribed, and an email comes to
\* be a key of both maps only by a /subscribe that finds its pending verification
\* already there
C28_NoPendingForSubscribed ==
    [][variant = "polling" =>
         /\ \A e \in Keys(pendingVerifications') :
              (e \notin Keys(pendingVerifications)
                 \/ pendingVerifications'[e] # pendingVerifications[e]) =>
                   /\ op' = "request-verification"
                   /\ e \notin Keys(subscriptions)
                   /\ e \notin Keys(subscriptions')
         /\ \A e \in Keys(subscriptions') \cap Keys(pendingVerifications') :
              e \notin Keys(subscriptions) \cap Keys(pendingVerifications) =>
                   /\ op' = "subscribe"
                   /\ e \in Keys(pendingVerifications)
                   /\ e \in verifiedEmails
      ]_vars

\* a /subscribe has just subscribed an email whose second verification is pending
C28_Witness ==
    /\ variant = "polling"
    /\ op = "subscribe"
    /\ status = 200
    /\ Keys(subscriptions) \cap Keys(pendingVerifications) # {}


\* C29: the weather mail shows the duration of the event as floor(duration / 60)
\* whole minutes, for every duration in seconds, below 60 and 0 included: the
\* number m it shows has 60 * m <= duration < 60 * (m + 1)
C29_DurationInWholeMinutes ==
    [][\A d \in DurationPayloads :
         (op' = "weather" /\ PollWeatherStep(d)) =>
            \A i \in DOMAIN outbox' :
               LET shown == outbox'[i].body.duration
                   seconds == d.weather[1].duration
               IN /\ DOMAIN shown = {"minutes"}
                  /\ 60 * shown.minutes <= seconds
                  /\ seconds < 60 * (shown.minutes + 1)
      ]_vars


\* the token sendVerificationEmail stored last for email, NoToken if it stored none
LastIssuedFor(email) ==
    LET at == {i \in DOMAIN issued : issued[i][1] = email} IN
    IF at = {} THEN NoToken
    ELSE issued[CHOOSE i \in at : \A j \in at : j <= i][2]

\* C30: in the polling variant an email enters verifiedEmails only by a /verify
\* that presents the token issued last for that same email, a token no /verify has
\* consumed and whose pending entry no sweep has removed; a token issued for
\* another email never does it
C30_VerifiedOnlyByOwnLatestToken ==
    [][variant = "polling" =>
         \A e \in verifiedEmails' \ verifiedEmails :
            /\ op' = "verify"
            /\ verifiedEmails' = verifiedEmails \cup {e}
            /\ \E p \in consumed' \ consumed :
                  /\ consumed' = consumed \cup {p}
                  /\ p[1] = e
                  /\ p[2] # NoToken
                  /\ p[2] = LastIssuedFor(e)
                  /\ \A i \in DOMAIN issued : issued[i][2] = p[2] => issued[i][1] = e
                  /\ \A q \in consumed : q[2] # p[2]
                  /\ e \in Keys(pendingVerifications)
                  /\ pendingVerifications[e].token = p[2]
      ]_vars

\* an email has just been verified by its own token while the token issued for the
\* other email is still pending
C30_Witness ==
    /\ variant = "polling"
    /\ op = "verify"
    /\ status = 302
    /\ Len(issued) = 2
    /\ issued[1][1] # issued[2][1]
    /\ \E e \in verifiedEmails : \E p \in consumed : p[1] = e /\ p[2] = LastIssuedFor(e)
    /\ Keys(pendingVerifications) # {}
    /\ Keys(pendingVerifications) \cap verifiedEmails = {}


\* C31: in the WebSocket variant a POST /request-verification that answers with a
\* failure (400 or 500, success: false) leaves pendingVerifications as it was, the
\* relay rejecting the verification mail included
C31_FailureLeavesPendingAlone ==
    [][(op' = "ws-request-verification" /\ status' \in {400, 500}) =>
          pendingVerifications' = pendingVerifications
      ]_vars


\* C32: in the polling variant a POST /request-verification that answers
\* success: true has handed the verification mail for the token it issued to
\* transporter.sendMail
C32_AcceptedRequestHandsMail ==
    [][(op' = "request-verification" /\ status' = 200) =>
          /\ Len(issued') = Len(issued) + 1
          /\ LET p == issued'[Len(issued')] IN
             \E i \in DOMAIN outbox' : outbox'[i] = VerificationMail(p[1], p[2])
      ]_vars


\* C36: in the polling variant every mail handed to the relay is addressed to the
\* email a verification was just requested for or to an email that is a key of
\* subscriptions; no request makes the server write to an address that is neither
C36_MailOnlyToKnownAddresses ==
    variant = "polling" =>
       \A i \in DOMAIN outbox :
          \/ outbox[i].to \in Keys(subscriptions)
          \/ /\ op = "request-verification"
             /\ outbox[i].kind = "verification"
             /\ issued # <<>>
             /\ outbox[i].to = issued[Len(issued)][1]


\* C33: in the WebSocket variant at most one upstream socket is open or connecting
\* and at most one reconnect timer is pending, whatever open, error and close
\* events have happened
C33_OneSocketOneTimer ==
    variant = "ws" =>
       /\ wsOpen + wsConnecting <= 1
       /\ reconnectTimers <= 1

\* an upstream socket that had been open and delivered a frame has closed: no
\* socket is left and the one reconnect timer is pending
C33_Witness ==
    /\ variant = "ws"
    /\ op = "ws-close"
    /\ latestStockDataObj # nullObj
    /\ wsOpen = 0
    /\ wsConnecting = 0
    /\ reconnectTimers = 1


\* C34: with weather polls that overlap and responses processed in any order, no
\* subscriber is mailed a second time for an event the endpoint has reported
\* active without interruption since it was announced; a late response does not
\* set the stored snapshot back so that the event is announced again
C34_ActiveEventAnnouncedOnce ==
    [][\A i \in 1..MaxFlights :
         (op' = "weather" /\ PollWeatherResponse(i) /\ outbox' # <<>>) =>
            ActiveIdOf(weatherFetches[i]) \notin announced
      ]_vars

\* C34 for responses that all report the event: however the responses of
\* overlapping polls are ordered, a response that reports an event active is not
\* announced when the stored snapshot reports the same event active
C34_SameEventInBothIsSilent ==
    [][\A i \in 1..MaxFlights :
         (op' = "weather" /\ PollWeatherResponse(i)
            /\ latestWeatherDataObj # nullObj
            /\ ActiveIdOf(weatherFetches[i]) = ActiveIdOf(latestWeatherDataObj)) =>
            outbox' = <<>>
      ]_vars


\* C35: in the polling variant, of two overlapping stock polls that return the same
\* changed payload one performs the fan-out: a poll stores the serialization
\* before it suspends on the catalog fetch, a poll whose payload is the stored one
\* hands no mail and does not suspend, and a suspended poll resumes once, with at
\* most one stock mail for a subscriber
C35_OverlappingPollsFanOutOnce ==
    [][variant = "polling" =>
         /\ \A d \in SomeStockPayloads :
               (op' = "stock" /\ PollStockRelayStep(d, relayErrors')) =>
                  /\ stockAwait' # stockAwait =>
                        /\ latestStockDataJSON' = StringifyStock(d)
                        /\ stockAwait' = Append(stockAwait, d)
                  /\ latestStockDataJSON = StringifyStock(d) =>
                        /\ outbox' = <<>>
                        /\ stockAwait' = stockAwait
         /\ op' = "stock-resume" =>
               /\ Len(stockAwait') = Len(stockAwait) - 1
               /\ \A e \in Emails : StockMailsTo(outbox', e) <= 1
      ]_vars

\* a poll is suspended on the catalog fetch with its payload stored as the last-seen
\* one, a subscriber watching an item in stock in it: the state a second poll that
\* returns the same payload finds and leaves
C35_Witness ==
    /\ variant = "polling"
    /\ op = "stock"
    /\ outbox = <<>>
    /\ stockAwait # <<>>
    /\ latestStockDataJSON = StringifyStock(stockAwait[1])
    /\ StockFanOut(stockAwait[1], <<>>) # <<>>
    /\ ENABLED PollStockRelayStep(stockAwait[1], {})


\* C37: in the WebSocket variant a weather poll whose fetch keeps failing makes at
\* most 5 attempts, the retries 2, 4, 8 and 16 s after the failures, and leaves no
\* timer after the fifth; a failed fetch changes nothing else and does not end the
\* process, and the interval can start a new poll whatever the earlier ones are doing
C37_BoundedWeatherRetries ==
    /\ [](\A i \in DOMAIN weatherChains :
            /\ weatherChains[i].attempt \in 1..5
            /\ weatherChains[i].phase = "wait" =>
                  /\ weatherChains[i].attempt < 5
                  /\ weatherChains[i].delay = BackoffSeconds[weatherChains[i].attempt])
    /\ []((alive /\ Len(weatherChains) < MaxChains) => ENABLED WeatherTickWS)
    /\ [][\A i \in 1..MaxChains :
            /\ (op' = "ws-weather-failed" /\ WeatherChainFailed(i)) =>
                  /\ alive'
                  /\ IF weatherChains[i].attempt < 5
                     THEN /\ Len(weatherChains') = Len(weatherChains)
                          /\ weatherChains'[i].phase = "wait"
                          /\ weatherChains'[i].attempt = weatherChains[i].attempt
                     ELSE Len(weatherChains') = Len(weatherChains) - 1
                  /\ UNCHANGED <<maps, latestWeatherDataJSON, latestWeatherDataObj,
                                 latestStockDataJSON, latestStockDataObj, itemInfo>>
            /\ (op' = "ws-weather-retry" /\ WeatherChainRetry(i)) =>
                  /\ weatherChains'[i].attempt = weatherChains[i].attempt + 1
                  /\ weatherChains'[i].phase = "fetch"
        ]_vars

\* the fifth attempt of a poll has just failed and left no timer, while the poll of
\* a later tick is awaiting its first fetch
C37_Witness ==
    /\ variant = "ws"
    /\ alive
    /\ op = "ws-weather-failed"
    /\ Len(weatherChains) = 1
    /\ weatherChains[1] = [attempt |-> 1, phase |-> "fetch", delay |-> 0]

====
